---- MODULE Spec2Model ----
(***************************************************************************)
(* Verification model of the stand-alone scripts of the repository:        *)
(*   video_to_slides_v1.py   frame deduplication and the process_video     *)
(*                           pipeline with its resume state                *)
(*   docsend_download.py     parallel batch download and slide counting    *)
(*   fireflies_cli_v1.py     retry helper and process_audio_file           *)
(*   papermark_download.py   process_slides_to_pdf                         *)
(*   signal handlers of fireflies_cli_v1, video_to_slides_v1,              *)
(*   website_to_pdf and shootproof_downloader                              *)
(* Every script is a separate program, so each has its own specification   *)
(* over its own variables; the variables of the other scripts stay idle.   *)
(***************************************************************************)
EXTENDS Naturals, Integers, Sequences, FiniteSets, TLC

VARIABLES
    \* deduplicate_with_dhash (video_to_slides_v1.py)
    dd_pc,          \* "start" | "hashing" | "done"
    dd_frames,      \* the frames argument: sequence of frame numbers
    dd_image,       \* frame -> perceptual hash of its image, or NoHash if unreadable
    dd_futures,     \* futures submitted to the pool and not yet yielded by as_completed
    frame_hashes,   \* the dict frame_hashes, in insertion order: sequence of <<frame, hash>>
    unique_frames,  \* the returned list
    \* detect_slide_count_auto / download_image_batch (docsend_download.py)
    ds_pc,          \* "submit" | "collect" | "done"
    ds_server,      \* the server: slide index -> image content (0: no image)
    ds_phase,       \* "single" (for i in range(1, 6)) | "batch" (for batch_num ...)
    ds_i,           \* the loop variable i, or batch_num
    ds_futures,     \* futures of the running batch not yet yielded by as_completed
    ds_results,     \* the dict results of the running batch, in insertion order
    all_hashes,     \* the dict all_hashes, in insertion order: <<idx, hash, size>>
    last_valid_slide,
    ds_return,      \* the value returned (NoCount: None, Running: not returned)
    \* FirefliesTranscriber._retry_with_backoff (fireflies_cli_v1.py)
    rt_pc,          \* "call" | "sleep" | "returned" | "raised" | "idle"
    rt_func,        \* the function retried: "_upload" | "_submit" | "_delete" | "func"
    max_attempts,
    initial_delay,
    attempt,        \* the loop variable
    delay,
    rt_log,         \* what the call did so far: "call" and sleep(d) events
    rt_result,      \* the value returned
    \* FirefliesTranscriber.process_audio_file (fireflies_cli_v1.py)
    ff_pc,          \* the step process_audio_file is at
    ff_args,        \* the arguments and the state of the audio file
    ff_stem,        \* audio_path.stem
    unique_hash,    \* uuid.uuid4().hex[:6]
    ff_account,     \* the transcripts of the Fireflies account, as the API lists them
    ff_files,       \* the output files that exist (by suffix)
    transcript_id,  \* the id wait_for_transcript returned (NoId: none yet)
    ff_downloaded,  \* the id whose transcript step 4 downloaded (NoId: none)
    ff_deleted,     \* the ids delete_transcript was called for
    ff_checks,      \* polls done by the running wait loop
    output_files,   \* the list output_files
    ff_result,      \* the ProcessingResult returned: [success, error_message]
    ff_writes,      \* the files _atomic_write wrote in this call, and whether each replaced a file
    overview_ready, \* the local variable overview_ready of step 6
    \* process_slides_to_pdf (papermark_download.py)
    pm_pc,          \* "convert" | "ocr" | "ocr_eng" | "compress" | "returned" | "idle"
    pm_screenshots, \* number of slide_*.png files in screenshots_dir
    pm_languages,   \* the languages argument (<<>>: None)
    pm_installed,   \* the languages tesseract --list-langs reports
    pm_disk,        \* output_dir: file name -> what the file holds
    ocr_success,
    pm_log,         \* the steps the logger reported as done or failed
    pm_return,      \* the value returned ("none": not returned)
    \* VideoToSlidesConverter.process_video (video_to_slides_v1.py)
    vp_pc,          \* the step process_video is at, or how the run ended
    vp_config,      \* self.config: video_path.exists(), dry_run, skip_ocr, skip_compress
    resume_state,   \* self.config.resume_state: the state loaded by --config
    vp_image,       \* frame of the video -> perceptual hash, NoHash if unreadable
    vp_is_slide,    \* frame of the video -> what check_frame_for_slide answers
    vp_frames_dir,  \* the frame_*.jpg files in output_dir/frames
    frames,         \* the local variable frames
    vp_files,       \* the PDFs of output_dir: "pdf", "ocr", "compressed"
    vp_state,       \* the state file of output_dir
    vp_deduped,     \* what deduplicate_with_dhash returned when it ran
    vp_log,         \* what this run did: steps done and steps that failed
    vp_result,      \* the tuple returned: [success, message]
    vp_resumes,     \* number of runs started with --config
    \* the signal handlers of the four scripts that install one
    sg_script,      \* the script that runs
    sg_slow,        \* website_to_pdf: config.slow and not config.fast_mode
    sg_pc,          \* "running" | "exited" | "idle"
    sg_phase,       \* index of the phase of the run being executed
    sg_strategy,    \* shootproof _progressive_loading: index of the next strategy
    sg_photos,      \* shootproof download_all_photos: futures no worker has taken yet
    _shutdown_requested,
    sg_delivered,   \* the signals delivered so far
    sg_handler,     \* what the last delivery did: "sys.exit" | "flag" | "default" | "none"
    sg_swallowed,   \* a SystemExit raised by the handler was caught by the run
    sg_started_after, \* the work started after the first signal was delivered
    sg_exit_code,   \* the exit status of the process (NoExit: still running)
    \* RobustShootProofDownloader.download_all_photos (shootproof_downloader.py)
    sp_pc,          \* "start" | "downloading" | "done" | "idle"
    sp_config,      \* self.config: resume, dry_run
    photo_data,     \* self.photo_data: the photo ids, sorted
    sp_disk,        \* output_dir: photo id -> size in bytes of <id>.jpg (NoSize: no file)
    sp_results_file, \* output_dir/download_results.json
    download_results, \* self.download_results: photo id -> result
    sp_futures,     \* futures submitted and not yet yielded by as_completed
    sp_submitted,   \* photo id -> number of times this run submitted it to the pool
    sp_start,       \* the disk and the results file as this run found them
    sp_shutdown,    \* self._shutdown_requested
    sp_skipped,     \* self.stats.skipped
    sp_runs,        \* number of runs of the downloader so far
    \* PDFConverter.convert_with_retry (website_to_pdf.py)
    wr_pc,          \* "attempt" | "returned" | "idle"
    wr_config,      \* self.config: max_retries, use_archive_fallback
    wr_url,         \* the url argument: "site" | "web.archive.org"
    is_archive_url, \* the is_archive_url argument
    wr_attempt,     \* the loop variable attempt: the attempt about to be made
    retry_delay,    \* seconds to sleep before the next attempt
    has_tried_archive,
    wr_conversions, \* the calls of convert_with_smart_fixes: argument and outcome
    wr_find_calls,  \* the urls find_archived_url was called with
    wr_sleeps,      \* the arguments of asyncio.sleep(retry_delay), in order
    wr_return       \* the returned success and message

ddVars == <<dd_pc, dd_frames, dd_image, dd_futures, frame_hashes, unique_frames>>

dsVars == <<ds_pc, ds_server, ds_phase, ds_i, ds_futures, ds_results, all_hashes,
            last_valid_slide, ds_return>>

rtVars == <<rt_pc, rt_func, max_attempts, initial_delay, attempt, delay, rt_log, rt_result>>

ffVars == <<ff_pc, ff_args, ff_stem, unique_hash, ff_account, ff_files, transcript_id,
            ff_downloaded, ff_deleted, ff_checks, output_files, ff_result,
            ff_writes, overview_ready>>

pmVars == <<pm_pc, pm_screenshots, pm_languages, pm_installed, pm_disk, ocr_success,
            pm_log, pm_return>>

vpVars == <<vp_pc, vp_config, resume_state, vp_image, vp_is_slide, vp_frames_dir, frames,
            vp_files, vp_state, vp_deduped, vp_log, vp_result, vp_resumes>>

sgVars == <<sg_script, sg_slow, sg_pc, sg_phase, sg_strategy, sg_photos,
            _shutdown_requested, sg_delivered, sg_handler, sg_swallowed, sg_started_after,
            sg_exit_code>>

spVars == <<sp_pc, sp_config, photo_data, sp_disk, sp_results_file, download_results,
            sp_futures, sp_submitted, sp_start, sp_shutdown, sp_skipped, sp_runs>>

wrVars == <<wr_pc, wr_config, wr_url, is_archive_url, wr_attempt, retry_delay,
            has_tried_archive, wr_conversions, wr_find_calls, wr_sleeps, wr_return>>

vars == <<ddVars, dsVars, rtVars, ffVars, pmVars, vpVars, sgVars, spVars, wrVars>>

\* what a step of one script leaves alone: the variables of the other scripts
DedupOnly == UNCHANGED <<dsVars, rtVars, ffVars, pmVars, vpVars, sgVars, spVars, wrVars>>
DetectOnly == UNCHANGED <<ddVars, rtVars, ffVars, pmVars, vpVars, sgVars, spVars, wrVars>>
RetryOnly == UNCHANGED <<ddVars, dsVars, ffVars, pmVars, vpVars, sgVars, spVars, wrVars>>
FirefliesOnly == UNCHANGED <<ddVars, dsVars, pmVars, vpVars, sgVars, spVars, wrVars>>
PapermarkOnly == UNCHANGED <<ddVars, dsVars, rtVars, ffVars, vpVars, sgVars, spVars, wrVars>>
VideoOnly == UNCHANGED <<ddVars, dsVars, rtVars, ffVars, pmVars, sgVars, spVars, wrVars>>
SignalsOnly == UNCHANGED <<ddVars, dsVars, rtVars, ffVars, pmVars, vpVars, spVars, wrVars>>
ShootproofOnly == UNCHANGED <<ddVars, dsVars, rtVars, ffVars, pmVars, vpVars, sgVars, wrVars>>
WebRetryOnly == UNCHANGED <<ddVars, dsVars, rtVars, ffVars, pmVars, vpVars, sgVars, spVars>>

-----------------------------------------------------------------------------
(* Bounds *)
MaxFrames == 3
MaxSlides == 9
MaxAttempts == 7
LongInitialDelay == 40
MaxPolls == 2
MaxOverviewChecks == 2
MaxScreenshots == 2
MaxVideoFrames == 2
MaxResumes == 2
MaxPhotos == 2
MaxSignals == 2
MaxRuns == 2
MaxSnapshots == 2

-----------------------------------------------------------------------------
(* Generic helpers *)
Range(s) == {s[i] : i \in 1..Len(s)}

Min(a, b) == IF a <= b THEN a ELSE b

\* the sequence 1, 2, ..., n: sorted(frames_dir.glob("frame_*.jpg"))
UpTo(n) == [i \in 1..n |-> i]

\* the ascending sequence of the elements of a finite set of integers (list.sort())
RECURSIVE SortedSeq(_)
SortedSeq(S) ==
    IF S = {} THEN <<>>
    ELSE LET m == CHOOSE x \in S : \A y \in S : x <= y
         IN <<m>> \o SortedSeq(S \ {m})

-----------------------------------------------------------------------------
(* video_to_slides_v1.py: perceptual-hash deduplication *)

HAMMING_THRESHOLD == 10
DHASH_SIZE == 16

\* A dhash is DHASH_SIZE x DHASH_SIZE bits; it is represented by the set of
\* positions of its 1 bits.
HashBits == 1..(DHASH_SIZE * DHASH_SIZE)

\* compute_hash_for_frame returns (frame, None) when the image cannot be hashed;
\* None is the one value that is not a set of bit positions
NoHash == {0}

\* The images the frames are drawn from: three hashes at distances 10, 10 and
\* 20 of each other (within, within and beyond the threshold).
HashPalette == { {}, 1..HAMMING_THRESHOLD, 1..(2 * HAMMING_THRESHOLD) }

\* imagehash: hash1 - hash2 is the number of differing bits
Hamming(a, b) == Cardinality((a \ b) \cup (b \ a))

\* compute_hash_for_frame: the hash of the frame's image, None on any error
compute_hash_for_frame(image, frame) == <<frame, image[frame]>>

\* The second loop of deduplicate_with_dhash: walk frame_hashes.items() in
\* insertion order and keep a frame when it is farther than the threshold
\* from every frame kept so far.
RECURSIVE FindUnique(_, _, _)
FindUnique(fh, uniq, threshold) ==
    IF fh = <<>> THEN uniq
    ELSE LET e == Head(fh)
             is_unique == \A i \in 1..Len(uniq) :
                              ~(Hamming(e[2], uniq[i][2]) <= threshold)
         IN FindUnique(Tail(fh), IF is_unique THEN Append(uniq, e) ELSE uniq, threshold)

FramesOf(fh) == [i \in 1..Len(fh) |-> fh[i][1]]

\* deduplicate_with_dhash for one completion order of the pool (a sequence
\* of the frames, each once)
DedupResult(image, order, threshold) ==
    LET results == [i \in 1..Len(order) |-> compute_hash_for_frame(image, order[i])]
        hashed  == SelectSeq(results, LAMBDA r : r[2] # NoHash)
    IN FramesOf(FindUnique(hashed, <<>>, threshold))

DedupInit ==
    /\ dd_pc = "start"
    /\ \E n \in 1..MaxFrames :
          /\ dd_frames = UpTo(n)
          /\ dd_image \in [1..n -> HashPalette \cup {NoHash}]
    /\ dd_futures = {}
    /\ frame_hashes = <<>>
    /\ unique_frames = <<>>

DedupIdle ==
    /\ dd_pc = "idle"
    /\ dd_frames = <<>>
    /\ dd_image = <<>>
    /\ dd_futures = {}
    /\ frame_hashes = <<>>
    /\ unique_frames = <<>>

\* executor.submit(compute_hash_for_frame, frame, hash_size) for frame in frames
SubmitHashes ==
    /\ dd_pc = "start"
    /\ dd_futures' = Range(dd_frames)
    /\ dd_pc' = "hashing"
    /\ UNCHANGED <<dd_frames, dd_image, frame_hashes, unique_frames>>
    /\ DedupOnly

\* one iteration of "for future in as_completed(futures)": the pool finishes
\* the futures in any order
HashCompleted ==
    /\ dd_pc = "hashing"
    /\ \E f \in dd_futures :
          LET r == compute_hash_for_frame(dd_image, f)
          IN /\ frame_hashes' = IF r[2] # NoHash THEN Append(frame_hashes, r)
                                ELSE frame_hashes
             /\ dd_futures' = dd_futures \ {f}
    /\ UNCHANGED <<dd_pc, dd_frames, dd_image, unique_frames>>
    /\ DedupOnly

\* the deduplication loop and the return
FindUniqueFrames ==
    /\ dd_pc = "hashing"
    /\ dd_futures = {}
    /\ unique_frames' = FramesOf(FindUnique(frame_hashes, <<>>, HAMMING_THRESHOLD))
    /\ dd_pc' = "done"
    /\ UNCHANGED <<dd_frames, dd_image, dd_futures, frame_hashes>>
    /\ DedupOnly

DedupNext ==
    \/ SubmitHashes
    \/ HashCompleted
    \/ FindUniqueFrames


\* C1: deduplicate_with_dhash is order-independent: for a fixed frame list
\* and fixed per-frame hashes, the set of frames it returns is the same for
\* every completion order of the pool, that is, it is the set returned when
\* the hash computations complete in submission order.
C1_DedupOrderIndependent ==
    dd_pc = "done" =>
        Range(unique_frames) = Range(DedupResult(dd_image, dd_frames, HAMMING_THRESHOLD))

\* a run of deduplicate_with_dhash has returned after the pool finished the
\* hashes of at least two frames in an order other than the submission order
C1_OutOfOrderDone ==
    /\ dd_pc = "done"
    /\ Len(frame_hashes) >= 2
    /\ \E i \in 1..(Len(frame_hashes) - 1) : frame_hashes[i][1] > frame_hashes[i + 1][1]

-----------------------------------------------------------------------------
(* docsend_download.py: slide count detection over parallel batch downloads *)

\* batch_size = 8 of detect_slide_count_auto
DetectBatchSize == 8
\* for i in range(1, 6)
SingleStop == 6
\* for batch_num in range(1, 20)
BatchNumStop == 20

\* return None
NoCount == -1
\* the function has not returned
Running == -2

\* What the server answers for a slide index: the image content, 0 when the
\* page data or the image cannot be fetched. A content is a number that
\* stands for the image bytes.
ServerContent(server, idx) == IF idx \in DOMAIN server THEN server[idx] ELSE 0

\* get_image_hash: the md5 digest, one digest per content
get_image_hash(content) == <<"md5", content>>

\* len(img_resp.content): the byte count, fixed by the content
ContentLen(content) == 1000 + (content % 2)

\* download_single: (idx, hash, size) or (idx, None, None)
NoImage == <<"none">>
download_single(server, idx) ==
    LET c == ServerContent(server, idx)
    IN IF c # 0 THEN <<idx, get_image_hash(c), ContentLen(c)>>
       ELSE <<idx, NoImage, 0>>

\* download_image_batch for one completion order (a sequence of the indexes
\* of the batch): the dict results, in insertion order
BatchResults(server, order) ==
    SelectSeq([k \in 1..Len(order) |-> download_single(server, order[k])],
              LAMBDA r : r[2] # NoImage)

\* The duplicate scan of the first phase, over results.items(): the first
\* earlier slide with the same hash ends the detection.
RECURSIVE ScanSingle(_, _)
ScanSingle(results, ah) ==
    IF results = <<>> THEN [ret |-> Running, ah |-> ah]
    ELSE LET r == Head(results)
             dups == {k \in 1..Len(ah) : ah[k][2] = r[2] /\ r[1] > ah[k][1]}
         IN IF dups # {}
            THEN [ret |-> ah[CHOOSE k \in dups : \A j \in dups : k <= j][1], ah |-> ah]
            ELSE ScanSingle(Tail(results),
                            IF \E k \in 1..Len(ah) : ah[k][1] = r[1]
                            THEN [k \in 1..Len(ah) |-> IF ah[k][1] = r[1] THEN r ELSE ah[k]]
                            ELSE Append(ah, r))

\* The duplicate scan of the batch phase, over batch_results.items(): same
\* hash, same size, and more than two slides apart.
RECURSIVE ScanBatch(_, _)
ScanBatch(results, ah) ==
    IF results = <<>> THEN [ret |-> Running, ah |-> ah]
    ELSE LET r == Head(results)
             dups == {k \in 1..Len(ah) :
                          ah[k][2] = r[2] /\ r[3] = ah[k][3] /\ r[1] > ah[k][1] + 2}
         IN IF dups # {}
            THEN [ret |-> ah[CHOOSE k \in dups : \A j \in dups : k <= j][1], ah |-> ah]
            ELSE ScanBatch(Tail(results),
                           IF \E k \in 1..Len(ah) : ah[k][1] = r[1]
                           THEN [k \in 1..Len(ah) |-> IF ah[k][1] = r[1] THEN r ELSE ah[k]]
                           ELSE Append(ah, r))

MaxKey(results) ==
    CHOOSE m \in {results[k][1] : k \in 1..Len(results)} :
        \A k \in 1..Len(results) : results[k][1] <= m

Keys(results) == {results[k][1] : k \in 1..Len(results)}

\* start_idx = 5 + (batch_num - 1) * batch_size + 1
StartIdx(batch_num) == 5 + (batch_num - 1) * DetectBatchSize + 1

\* One iteration of the first loop, after download_image_batch(..., i, 1)
SingleStep(i, results, ah, lv) ==
    IF results # <<>>
    THEN LET sc == ScanSingle(results, ah)
         IN [ret |-> sc.ret, ah |-> sc.ah, lv |-> i]
    ELSE [ret |-> IF i = 1 THEN NoCount ELSE i - 1, ah |-> ah, lv |-> lv]

\* One iteration of the batch loop, after download_image_batch(..., start_idx, 8)
BatchStep(batch_num, results, ah, lv) ==
    IF results = <<>>
    THEN [ret |-> lv, ah |-> ah, lv |-> lv]
    ELSE LET lv2 == MaxKey(results)
             start_idx == StartIdx(batch_num)
             missing_at_end ==
                 \A i \in start_idx..(start_idx + DetectBatchSize - 1) :
                     ~(i <= lv2 /\ i \notin Keys(results))
         IN IF Len(results) < DetectBatchSize /\ missing_at_end
            THEN [ret |-> lv2, ah |-> ah, lv |-> lv2]
            ELSE LET sc == ScanBatch(results, ah)
                 IN [ret |-> sc.ret, ah |-> sc.ah, lv |-> lv2]

\* The indexes download_image_batch submits in the current iteration
BatchIndexes(phase, i) ==
    IF phase = "single" THEN {i}
    ELSE StartIdx(i)..(StartIdx(i) + DetectBatchSize - 1)

\* detect_slide_count_auto when every batch completes in index order
RECURSIVE DetectInOrder(_, _, _, _, _)
DetectInOrder(server, phase, i, ah, lv) ==
    LET results == BatchResults(server, SortedSeq(BatchIndexes(phase, i)))
        st == IF phase = "single" THEN SingleStep(i, results, ah, lv)
              ELSE BatchStep(i, results, ah, lv)
    IN IF st.ret # Running THEN st.ret
       ELSE IF phase = "single"
            THEN (IF i + 1 < SingleStop
                  THEN DetectInOrder(server, "single", i + 1, st.ah, st.lv)
                  ELSE DetectInOrder(server, "batch", 1, st.ah, st.lv))
            ELSE (IF i + 1 < BatchNumStop
                  THEN DetectInOrder(server, "batch", i + 1, st.ah, st.lv)
                  ELSE st.lv)

\* The servers: a document of n slides with pairwise different images, in
\* which optionally one slide cannot be fetched (hole) and optionally one
\* slide shows the same image as an earlier one (dup).
DupPairs == {<<0, 0>>} \cup {d \in (1..MaxSlides) \X (1..MaxSlides) : d[1] < d[2]}

Servers ==
    { [idx \in 1..n |->
          IF idx = hole THEN 0
          ELSE IF idx = dup[2] THEN dup[1] ELSE idx] :
      n \in 0..MaxSlides, hole \in 0..MaxSlides, dup \in DupPairs }

DetectInit ==
    /\ ds_pc = "submit"
    /\ ds_server \in Servers
    /\ ds_phase = "single"
    /\ ds_i = 1
    /\ ds_futures = {}
    /\ ds_results = <<>>
    /\ all_hashes = <<>>
    /\ last_valid_slide = 0
    /\ ds_return = Running

DetectIdle ==
    /\ ds_pc = "idle"
    /\ ds_server = <<>>
    /\ ds_phase = "single"
    /\ ds_i = 0
    /\ ds_futures = {}
    /\ ds_results = <<>>
    /\ all_hashes = <<>>
    /\ last_valid_slide = 0
    /\ ds_return = Running

\* download_image_batch: executor.submit(download_single, i) for the batch
SubmitDownloads ==
    /\ ds_pc = "submit"
    /\ ds_futures' = BatchIndexes(ds_phase, ds_i)
    /\ ds_results' = <<>>
    /\ ds_pc' = "collect"
    /\ UNCHANGED <<ds_server, ds_phase, ds_i, all_hashes, last_valid_slide, ds_return>>
    /\ DetectOnly

\* download_image_batch: one iteration of "for future in as_completed(futures)"
DownloadCompleted ==
    /\ ds_pc = "collect"
    /\ \E f \in ds_futures :
          LET r == download_single(ds_server, f)
          IN /\ ds_results' = IF r[2] # NoImage THEN Append(ds_results, r) ELSE ds_results
             /\ ds_futures' = ds_futures \ {f}
    /\ UNCHANGED <<ds_pc, ds_server, ds_phase, ds_i, all_hashes, last_valid_slide, ds_return>>
    /\ DetectOnly

\* detect_slide_count_auto: the body of the running loop on the batch's results
ProcessResults ==
    /\ ds_pc = "collect"
    /\ ds_futures = {}
    /\ LET st == IF ds_phase = "single"
                 THEN SingleStep(ds_i, ds_results, all_hashes, last_valid_slide)
                 ELSE BatchStep(ds_i, ds_results, all_hashes, last_valid_slide)
           stop == IF ds_phase = "single" THEN FALSE ELSE ~(ds_i + 1 < BatchNumStop)
       IN /\ all_hashes' = st.ah
          /\ last_valid_slide' = st.lv
          /\ IF st.ret # Running \/ stop
             THEN /\ ds_return' = IF st.ret # Running THEN st.ret ELSE st.lv
                  /\ ds_pc' = "done"
                  /\ UNCHANGED <<ds_phase, ds_i>>
             ELSE /\ ds_return' = Running
                  /\ ds_pc' = "submit"
                  /\ IF ds_phase = "single" /\ ~(ds_i + 1 < SingleStop)
                     THEN ds_phase' = "batch" /\ ds_i' = 1
                     ELSE ds_phase' = ds_phase /\ ds_i' = ds_i + 1
    /\ ds_results' = <<>>
    /\ UNCHANGED <<ds_server, ds_futures>>
    /\ DetectOnly

DetectNext ==
    \/ SubmitDownloads
    \/ DownloadCompleted
    \/ ProcessResults

\* C2: detect_slide_count_auto is order-independent: for a fixed server the
\* slide count it returns is the same for every completion order of the
\* parallel downloads, that is, it is the count returned when every batch
\* completes in index order.
C2_DetectOrderIndependent ==
    ds_pc = "done" => ds_return = DetectInOrder(ds_server, "single", 1, <<>>, 0)

-----------------------------------------------------------------------------
(* fireflies_cli_v1.py: _retry_with_backoff and its three callers *)

\* def _retry_with_backoff(self, func, max_attempts: int = 3, initial_delay: float = 1.0)
DefaultMaxAttempts == 3
DefaultInitialDelay == 1
\* delay = min(delay * 2, 60)
BackoffCap == 60
\* self._retry_with_backoff(_delete, max_attempts=1)
DeleteMaxAttempts == 1

\* What one invocation of the retried function can do: return a value that is
\* not None, return None, or raise.
\*   _upload returns the download URL, or None on a failed upload
\*   _submit returns True, or False on a rejected submission
\*   _delete returns True or False and catches its own exceptions
Returns(func) ==
    CASE func = "_upload" -> {"url", "None"}
      [] func = "_submit" -> {"True", "False"}
      [] func = "_delete" -> {"True", "False"}
      [] OTHER            -> {"value", "None"}

CanRaise(func) == func # "_delete"

\* the arguments the callers pass
RetryCallers ==
    { [func |-> "_upload", max |-> DefaultMaxAttempts, init |-> DefaultInitialDelay],
      [func |-> "_submit", max |-> DefaultMaxAttempts, init |-> DefaultInitialDelay],
      [func |-> "_delete", max |-> DeleteMaxAttempts, init |-> DefaultInitialDelay] }

\* a direct call with any arguments
RetryDirect ==
    { [func |-> "func", max |-> mx, init |-> d] :
        mx \in 1..MaxAttempts, d \in {DefaultInitialDelay, LongInitialDelay} }

Call == [ev |-> "call", d |-> 0]
Sleep(d) == [ev |-> "sleep", d |-> d]

\* entry of _retry_with_backoff: delay = initial_delay, first loop iteration
RetryEnter(c) ==
    /\ rt_pc' = "call"
    /\ rt_func' = c.func
    /\ max_attempts' = c.max
    /\ initial_delay' = c.init
    /\ attempt' = 0
    /\ delay' = c.init
    /\ rt_log' = <<>>
    /\ rt_result' = "None"

RetryInit ==
    /\ rt_pc = "call"
    /\ \E c \in RetryCallers \cup RetryDirect :
          /\ rt_func = c.func
          /\ max_attempts = c.max
          /\ initial_delay = c.init
          /\ delay = c.init
    /\ attempt = 0
    /\ rt_log = <<>>
    /\ rt_result = "None"

RetryIdle ==
    /\ rt_pc = "idle"
    /\ rt_func = "func"
    /\ max_attempts = 0
    /\ initial_delay = 0
    /\ attempt = 0
    /\ delay = 0
    /\ rt_log = <<>>
    /\ rt_result = "None"

\* result = func() returned a value that is not None: return result
FuncReturns ==
    /\ rt_pc = "call"
    /\ \E r \in Returns(rt_func) \ {"None"} : rt_result' = r
    /\ rt_log' = Append(rt_log, Call)
    /\ rt_pc' = "returned"
    /\ UNCHANGED <<rt_func, max_attempts, initial_delay, attempt, delay>>
    /\ RetryOnly

\* result = func() returned None: the loop goes to its next iteration, and
\* after the last one the function returns None
FuncReturnsNone ==
    /\ rt_pc = "call"
    /\ "None" \in Returns(rt_func)
    /\ rt_log' = Append(rt_log, Call)
    /\ attempt' = attempt + 1
    /\ rt_pc' = IF attempt + 1 < max_attempts THEN "call" ELSE "returned"
    /\ rt_result' = "None"
    /\ UNCHANGED <<rt_func, max_attempts, initial_delay, delay>>
    /\ RetryOnly

\* func() raised: re-raise on the last attempt, otherwise sleep and retry
FuncRaises ==
    /\ rt_pc = "call"
    /\ CanRaise(rt_func)
    /\ rt_log' = Append(rt_log, Call)
    /\ rt_pc' = IF attempt = max_attempts - 1 THEN "raised" ELSE "sleep"
    /\ UNCHANGED <<rt_func, max_attempts, initial_delay, attempt, delay, rt_result>>
    /\ RetryOnly

\* time.sleep(delay); delay = min(delay * 2, 60); next loop iteration
BackoffSleep ==
    /\ rt_pc = "sleep"
    /\ rt_log' = Append(rt_log, Sleep(delay))
    /\ delay' = Min(delay * 2, BackoffCap)
    /\ attempt' = attempt + 1
    /\ rt_pc' = "call"
    /\ UNCHANGED <<rt_func, max_attempts, initial_delay, rt_result>>
    /\ RetryOnly

RetryNext ==
    \/ FuncReturns
    \/ FuncReturnsNone
    \/ FuncRaises
    \/ BackoffSleep

\* the sleeps of the log, in order
SleepsOf(log) == SelectSeq(log, LAMBDA e : e.ev = "sleep")
CallsOf(log) == Len(SelectSeq(log, LAMBDA e : e.ev = "call"))

RECURSIVE Pow2(_)
Pow2(k) == IF k = 0 THEN 1 ELSE 2 * Pow2(k - 1)

\* C5: _retry_with_backoff invokes the request at most max_attempts times,
\* and whenever it invokes the request again after an unsuccessful attempt
\* (an exception or a None result) it first sleeps, with a delay that starts
\* at initial_delay and doubles on each retry, capped at 60 seconds.
C5_RetryBacksOff ==
    /\ CallsOf(rt_log) <= max_attempts
    /\ \A i \in 2..Len(rt_log) : rt_log[i].ev = "call" => rt_log[i - 1].ev = "sleep"
    /\ \A k \in 1..Len(SleepsOf(rt_log)) :
          SleepsOf(rt_log)[k].d = Min(initial_delay * Pow2(k - 1), BackoffCap)

\* C6: submit_to_fireflies retries a rejected submission: when it reports
\* failure after Fireflies rejected the submission (_submit returned False),
\* the submission has been attempted 3 times.
C6_SubmitRetriesRejection ==
    (rt_func = "_submit" /\ rt_pc = "returned" /\ rt_result = "False")
        => CallsOf(rt_log) = DefaultMaxAttempts

-----------------------------------------------------------------------------
(* fireflies_cli_v1.py: process_audio_file *)

\* Strings are sequences of characters.
CliTag == <<"F","I","R","E","F","L","I","E","S","C","L","I","_","_">>

\* str.lower() on the characters that occur
LowerChar(c) ==
    CASE c = "F" -> "f" [] c = "I" -> "i" [] c = "R" -> "r" [] c = "E" -> "e"
      [] c = "L" -> "l" [] c = "S" -> "s" [] c = "C" -> "c" [] c = "W" -> "w"
      [] OTHER -> c

Lower(str) == [i \in 1..Len(str) |-> LowerChar(str[i])]

\* str[:n]
Take(str, n) == SubSeq(str, 1, Min(n, Len(str)))

\* a in b, for strings
Contains(a, b) ==
    \E o \in 0..(Len(b) - Len(a)) : SubSeq(b, o + 1, o + Len(a)) = a

\* wait_for_transcript(title[:30], ...)
TitleSearchLen == 30
\* 'variables': {'limit': 20}
TranscriptsLimit == 20

\* reference_id = f"{audio_path.stem}_{unique_hash}"; title = f"FIREFLIESCLI__{reference_id}"
TitleOf(stem, hash) == CliTag \o stem \o <<"_">> \o hash

\* The audio files: a short stem and a stem of 20 characters
Stems ==
    { <<"n","o","t","e","s">>,
      <<"W","e","e","k","l","y","_","p","l","a","n","n","i","n","g","_","c","a","l","l">> }

\* Two values of uuid4().hex[:6]
HexHashes == { <<"a","f","5","0","d","4">>, <<"0","7","c","9","1","e">> }

NoId == 0
\* the id Fireflies gives the transcript this call submits
OurId == 3

\* What the account can hold before the call: the transcript an earlier run
\* on the same file left there (another uuid), and a meeting of the user.
EarlierRun(stem, hash) ==
    [id |-> 1, title |-> TitleOf(stem, CHOOSE h \in HexHashes : h # hash), duration |-> TRUE]
UserMeeting ==
    [id |-> 2, title |-> <<"S","t","a","n","d","u","p">>, duration |-> TRUE]

\* The arguments of process_audio_file and what is true of the audio file
\* (short: its duration is known and below min_duration).
ArgSets ==
    [dry_run : BOOLEAN, force : BOOLEAN, wait_for_overview : BOOLEAN,
     delete_skip : BOOLEAN, short : BOOLEAN, force_short : BOOLEAN]

TranscriptFiles == {".transcript.json", ".transcript.txt", ".transcript.md"}
OverviewFiles == {".overview.json", ".overview.txt", ".overview.md"}

Success(msg) == [success |-> TRUE, error_message |-> msg]
Failure(msg) == [success |-> FALSE, error_message |-> msg]
NoResult == [success |-> FALSE, error_message |-> "running"]

\* a should_write that never skips
AlwaysWrite(files, force, f) == TRUE

\* should_write: the file does not exist, or force
should_write(files, force, f) == f \notin files \/ force

\* wait_for_transcript, one poll that got an answer: the first listed
\* transcript whose lower-cased title contains the lower-cased search string
\* and whose duration is set; NoId when there is none
PollResult(account, search) ==
    LET listed == Take(account, TranscriptsLimit)
        hits == {k \in 1..Len(listed) :
                    Contains(Lower(search), Lower(listed[k].title)) /\ listed[k].duration}
    IN IF hits = {} THEN NoId
       ELSE listed[CHOOSE k \in hits : \A j \in hits : k <= j].id

FirefliesInit ==
    /\ ff_pc = "start"
    /\ ff_args \in ArgSets
    /\ ff_stem \in Stems
    /\ unique_hash \in HexHashes
    /\ \E others \in SUBSET {1, 2} :
          ff_account = SelectSeq(<<EarlierRun(ff_stem, unique_hash), UserMeeting>>,
                                 LAMBDA t : t.id \in others)
    /\ ff_files \in {{}, TranscriptFiles}
    /\ transcript_id = NoId
    /\ ff_downloaded = NoId
    /\ ff_deleted = {}
    /\ ff_checks = 0
    /\ output_files = <<>>
    /\ ff_result = NoResult
    /\ ff_writes = {}
    /\ overview_ready = FALSE

FirefliesIdle ==
    /\ ff_pc = "idle"
    /\ ff_args = <<>>
    /\ ff_stem = <<>>
    /\ unique_hash = <<>>
    /\ ff_account = <<>>
    /\ ff_files = {}
    /\ transcript_id = NoId
    /\ ff_downloaded = NoId
    /\ ff_deleted = {}
    /\ ff_checks = 0
    /\ output_files = <<>>
    /\ ff_result = NoResult
    /\ ff_writes = {}
    /\ overview_ready = FALSE

\* return ProcessingResult(...): every exit of process_audio_file
Return(res) ==
    /\ ff_pc' = "returned"
    /\ ff_result' = res

\* the head of process_audio_file: dry run, duration check, already-processed
\* check, then step 1 calls upload_to_tmpfiles
ProcessStart ==
    /\ ff_pc = "start"
    /\ IF ff_args.dry_run
       THEN Return(Success("Dry run - no processing performed")) /\ UNCHANGED rtVars
       ELSE IF ff_args.short /\ ~ff_args.force_short
       THEN Return(Failure("Audio too short")) /\ UNCHANGED rtVars
       ELSE IF ~ff_args.force /\ ".transcript.json" \in ff_files
       THEN Return(Success("Already processed")) /\ UNCHANGED rtVars
       ELSE /\ ff_pc' = "upload"
            /\ RetryEnter([func |-> "_upload", max |-> DefaultMaxAttempts,
                           init |-> DefaultInitialDelay])
            /\ UNCHANGED ff_result
    /\ UNCHANGED <<ff_args, ff_stem, unique_hash, ff_account, ff_files, transcript_id,
                   ff_downloaded, ff_deleted, ff_checks, output_files>>
    /\ UNCHANGED <<ff_writes, overview_ready>>
    /\ FirefliesOnly

\* upload_to_tmpfiles returned or raised; step 2 calls submit_to_fireflies
UploadDone ==
    /\ ff_pc = "upload"
    /\ rt_pc \in {"returned", "raised"}
    /\ IF rt_pc = "returned" /\ rt_result = "url"
       THEN /\ ff_pc' = "submit"
            /\ RetryEnter([func |-> "_submit", max |-> DefaultMaxAttempts,
                           init |-> DefaultInitialDelay])
            /\ UNCHANGED ff_result
       ELSE /\ Return(Failure("Failed to upload to temporary hosting"))
            /\ UNCHANGED rtVars
    /\ UNCHANGED <<ff_args, ff_stem, unique_hash, ff_account, ff_files, transcript_id,
                   ff_downloaded, ff_deleted, ff_checks, output_files>>
    /\ UNCHANGED <<ff_writes, overview_ready>>
    /\ FirefliesOnly

\* submit_to_fireflies returned or raised; an accepted submission puts the
\* transcript, still without duration, into the account
SubmitDone ==
    /\ ff_pc = "submit"
    /\ rt_pc \in {"returned", "raised"}
    /\ IF rt_pc = "returned" /\ rt_result = "True"
       THEN /\ ff_pc' = "wait"
            /\ LET ours == [id |-> OurId, title |-> TitleOf(ff_stem, unique_hash),
                            duration |-> FALSE]
               IN ff_account' \in {<<ours>> \o ff_account, ff_account \o <<ours>>}
            /\ UNCHANGED ff_result
       ELSE /\ Return(Failure("Failed to submit to Fireflies"))
            /\ UNCHANGED ff_account
    /\ UNCHANGED <<ff_args, ff_stem, unique_hash, ff_files, transcript_id,
                   ff_downloaded, ff_deleted, ff_checks, output_files>>
    /\ UNCHANGED rtVars
    /\ UNCHANGED <<ff_writes, overview_ready>>
    /\ FirefliesOnly

\* Fireflies finishes transcribing: the duration of the transcript is set
FirefliesTranscribes ==
    /\ ff_pc = "wait"
    /\ \E k \in 1..Len(ff_account) :
          /\ ~ff_account[k].duration
          /\ ff_account' = [ff_account EXCEPT ![k].duration = TRUE]
    /\ UNCHANGED <<ff_pc, ff_args, ff_stem, unique_hash, ff_files, transcript_id,
                   ff_downloaded, ff_deleted, ff_checks, output_files, ff_result>>
    /\ UNCHANGED rtVars
    /\ UNCHANGED <<ff_writes, overview_ready>>
    /\ FirefliesOnly

\* step 3, one iteration of the loop of wait_for_transcript(title[:30]): the
\* poll is answered (answered) or fails; without a ready match the loop
\* sleeps, and it times out after the last poll
WaitPoll ==
    /\ ff_pc = "wait"
    /\ \E answered \in BOOLEAN :
          LET search == Take(TitleOf(ff_stem, unique_hash), TitleSearchLen)
              found == IF answered THEN PollResult(ff_account, search) ELSE NoId
          IN IF found # NoId
             THEN /\ transcript_id' = found
                  /\ ff_pc' = "download"
                  /\ ff_checks' = 0
                  /\ UNCHANGED ff_result
             ELSE IF ff_checks + 1 < MaxPolls
             THEN /\ ff_checks' = ff_checks + 1
                  /\ UNCHANGED <<ff_pc, transcript_id, ff_result>>
             ELSE /\ Return(Failure("Transcript not ready after timeout"))
                  /\ UNCHANGED <<transcript_id, ff_checks>>
    /\ UNCHANGED <<ff_args, ff_stem, unique_hash, ff_account, ff_files,
                   ff_downloaded, ff_deleted, output_files>>
    /\ UNCHANGED rtVars
    /\ UNCHANGED <<ff_writes, overview_ready>>
    /\ FirefliesOnly

\* step 4: download_transcript(transcript_id, wait_for_overview=False)
\* returns the transcript, returns None, or the request raises
DownloadTranscript ==
    /\ ff_pc = "download"
    /\ \E outcome \in {"transcript", "None", "raises"} :
          IF outcome = "transcript"
          THEN /\ ff_downloaded' = transcript_id
               /\ ff_pc' = "save"
               /\ UNCHANGED ff_result
          ELSE /\ Return(Failure(IF outcome = "None" THEN "Failed to download transcript"
                                 ELSE "request failed"))
               /\ UNCHANGED ff_downloaded
    /\ UNCHANGED <<ff_args, ff_stem, unique_hash, ff_account, ff_files, transcript_id,
                   ff_deleted, ff_checks, output_files>>
    /\ UNCHANGED rtVars
    /\ UNCHANGED <<ff_writes, overview_ready>>
    /\ FirefliesOnly

\* the files one save call writes: those should_write allows and whose
\* _atomic_write succeeds (failed: the writes that fail)
Written(targets, failed) ==
    {f \in targets : should_write(ff_files, ff_args.force, f) /\ f \notin failed}

\* the order in which the save functions append to output_files
FileOrder ==
    <<".transcript.json", ".transcript.txt", ".transcript.md",
      ".overview.json", ".overview.txt", ".overview.md">>

InOrder(S) == SelectSeq(FileOrder, LAMBDA f : f \in S)

\* what one save call adds to the files written: each file it wrote, and
\* whether the file existed before
Writes(targets, failed) ==
    {[file |-> f, replaced |-> f \in ff_files] : f \in Written(targets, failed)}

\* step 5: save_transcript_files inside try/except: it returns the files it
\* wrote, or it raises after writing some and output_files becomes []
SaveTranscriptFiles ==
    /\ ff_pc = "save"
    /\ \E failed \in SUBSET TranscriptFiles, raises \in BOOLEAN :
          /\ ff_files' = ff_files \cup Written(TranscriptFiles, failed)
          /\ ff_writes' = ff_writes \cup Writes(TranscriptFiles, failed)
          /\ output_files' = IF raises THEN <<>>
                             ELSE InOrder(Written(TranscriptFiles, failed))
    /\ ff_pc' = IF ff_args.wait_for_overview THEN "overview" ELSE "delete"
    /\ ff_checks' = 0
    /\ UNCHANGED <<ff_args, ff_stem, unique_hash, ff_account, transcript_id,
                   ff_downloaded, ff_deleted, ff_result, overview_ready>>
    /\ UNCHANGED rtVars
    /\ FirefliesOnly

\* step 6, one iteration of the overview loop: download_transcript(...,
\* checking_overview=True) raises, or finds no overview yet (sleep, until
\* max_overview_wait has passed), or finds it and save_overview_files is
\* called, which returns the files it wrote or raises
OverviewCheck ==
    /\ ff_pc = "overview"
    /\ \E outcome \in {"ready", "not ready", "raises"} :
          CASE outcome = "raises" ->
                 /\ Return(Failure("request failed"))
                 /\ UNCHANGED <<ff_files, output_files, ff_checks, ff_writes, overview_ready>>
            [] outcome = "not ready" ->
                 /\ ff_checks' = ff_checks + 1
                 /\ ff_pc' = IF ff_checks + 1 < MaxOverviewChecks THEN "overview" ELSE "delete"
                 /\ UNCHANGED <<ff_files, output_files, ff_result, ff_writes, overview_ready>>
            [] outcome = "ready" ->
                 \E failed \in SUBSET OverviewFiles, raises \in BOOLEAN :
                    /\ ff_files' = ff_files \cup Written(OverviewFiles, failed)
                    /\ ff_writes' = ff_writes \cup Writes(OverviewFiles, failed)
                    /\ overview_ready' = TRUE
                    /\ UNCHANGED ff_checks
                    /\ IF raises
                       THEN /\ Return(Failure("save_overview_files failed"))
                            /\ UNCHANGED output_files
                       ELSE /\ output_files' =
                                  output_files \o InOrder(Written(OverviewFiles, failed))
                            /\ ff_pc' = "delete"
                            /\ UNCHANGED ff_result
    /\ UNCHANGED <<ff_args, ff_stem, unique_hash, ff_account, transcript_id,
                   ff_downloaded, ff_deleted>>
    /\ UNCHANGED rtVars
    /\ FirefliesOnly

\* step 7: unless delete_skip, delete_transcript(transcript_id) is called
DeleteOrSkip ==
    /\ ff_pc = "delete"
    /\ IF ff_args.delete_skip
       THEN /\ Return(Success("None"))
            /\ UNCHANGED <<ff_deleted, rtVars>>
       ELSE /\ ff_deleted' = ff_deleted \cup {transcript_id}
            /\ ff_pc' = "deleting"
            /\ RetryEnter([func |-> "_delete", max |-> DeleteMaxAttempts,
                           init |-> DefaultInitialDelay])
            /\ UNCHANGED ff_result
    /\ UNCHANGED <<ff_args, ff_stem, unique_hash, ff_account, ff_files, transcript_id,
                   ff_downloaded, ff_checks, output_files>>
    /\ UNCHANGED <<ff_writes, overview_ready>>
    /\ FirefliesOnly

\* delete_transcript returned: an accepted deletion removes the transcript
\* from the account; process_audio_file returns success either way
DeleteDone ==
    /\ ff_pc = "deleting"
    /\ rt_pc \in {"returned", "raised"}
    /\ ff_account' = IF rt_pc = "returned" /\ rt_result = "True"
                     THEN SelectSeq(ff_account, LAMBDA t : t.id # transcript_id)
                     ELSE ff_account
    /\ Return(Success("None"))
    /\ UNCHANGED <<ff_args, ff_stem, unique_hash, ff_files, transcript_id,
                   ff_downloaded, ff_deleted, ff_checks, output_files>>
    /\ UNCHANGED rtVars
    /\ UNCHANGED <<ff_writes, overview_ready>>
    /\ FirefliesOnly

FirefliesNext ==
    \/ ProcessStart
    \/ UploadDone
    \/ SubmitDone
    \/ FirefliesTranscribes
    \/ WaitPoll
    \/ DownloadTranscript
    \/ SaveTranscriptFiles
    \/ OverviewCheck
    \/ DeleteOrSkip
    \/ DeleteDone
    \/ FuncReturns
    \/ FuncReturnsNone
    \/ FuncRaises
    \/ BackoffSleep

\* C3: the transcript id returned by wait_for_transcript in step 3, which is
\* then downloaded and deleted, always belongs to the transcript submitted
\* by this call, never to another transcript of the account.
C3_OwnTranscriptOnly ==
    /\ transcript_id \in {NoId, OurId}
    /\ ff_downloaded \in {NoId, OurId}
    /\ ff_deleted \subseteq {OurId}

\* C4: with delete_skip false, once the transcript has been downloaded
\* (step 4), delete_transcript has been called for its id when the function
\* returns.
C4_DeletedBeforeReturn ==
    (ff_pc = "returned" /\ ff_downloaded # NoId /\ ~ff_args.delete_skip)
        => ff_downloaded \in ff_deleted

\* What the output directory can hold before the call: nothing, the files
\* of an earlier run with or without its overview, or some of them
OutputDirs ==
    { {}, TranscriptFiles, TranscriptFiles \cup OverviewFiles,
      {".transcript.json"}, {".transcript.txt"}, {".overview.md"},
      {".transcript.md", ".overview.json"} }

\* process_audio_file on one audio file and a new account, over every
\* argument set and every output directory of OutputDirs
FirefliesFilesInit ==
    /\ ff_pc = "start"
    /\ ff_args \in ArgSets
    /\ ff_stem = <<"n","o","t","e","s">>
    /\ unique_hash = <<"a","f","5","0","d","4">>
    /\ ff_account = <<>>
    /\ ff_files \in OutputDirs
    /\ transcript_id = NoId
    /\ ff_downloaded = NoId
    /\ ff_deleted = {}
    /\ ff_checks = 0
    /\ output_files = <<>>
    /\ ff_result = NoResult
    /\ ff_writes = {}
    /\ overview_ready = FALSE

\* the file was in the output directory when process_audio_file was called
ExistedBefore(f) ==
    /\ f \in ff_files
    /\ \A w \in ff_writes : w.file = f => w.replaced

\* nothing was uploaded, submitted, polled, downloaded, written or deleted
NothingDone ==
    /\ ff_pc \in {"start", "returned"}
    /\ RetryIdle
    /\ ff_account = <<>>
    /\ transcript_id = NoId
    /\ ff_downloaded = NoId
    /\ ff_deleted = {}
    /\ ff_writes = {}
    /\ output_files = <<>>

\* the files this call wrote
FilesWritten == {w.file : w \in ff_writes}

DocumentedFiles ==
    TranscriptFiles \cup {".summary.json", ".summary.txt", ".summary.md"}

\* C17: when a run has returned success after the overview became available,
\* the files it wrote are the six documented ones and output_files lists
\* exactly the files it wrote.
C17_SixDocumentedFiles ==
    (ff_pc = "returned" /\ ff_result = Success("None") /\ overview_ready) =>
        /\ FilesWritten = DocumentedFiles
        /\ Cardinality(FilesWritten) = 6
        /\ Range(output_files) = FilesWritten

-----------------------------------------------------------------------------
(* papermark_download.py: process_slides_to_pdf                            *)

\* the three output paths
slides_pdf == "slides.pdf"
slides_ocr_pdf == "slides_ocr.pdf"
slides_ocr_compressed_pdf == "slides_ocr_compressed.pdf"

PdfNames == {slides_pdf, slides_ocr_pdf, slides_ocr_compressed_pdf}

\* what a file of output_dir holds: no file, a file left by an earlier run, a
\* file a failed tool left unfinished, or a PDF of n pages with the OCR
\* languages of its text layer and whether ghostscript compressed it
Absent == [kind |-> "absent", pages |-> 0, langs |-> <<>>, gs |-> FALSE]
Stale == [kind |-> "stale", pages |-> 1, langs |-> <<>>, gs |-> FALSE]
Partial == [kind |-> "partial", pages |-> 0, langs |-> <<>>, gs |-> FALSE]

\* img2pdf.convert(screenshot_files) written to output_pdf
Img2Pdf(n) == [kind |-> "pdf", pages |-> n, langs |-> <<>>, gs |-> FALSE]

\* os.path.exists
Exists(disk, name) == disk[name].kind # "absent"

\* the languages add_ocr_to_pdf hands to ocrmypdf: <<>> stands for ["eng"];
\* when tesseract lists its languages the requested ones are filtered by
\* them, with English when none is left; otherwise English only
OcrLanguages(languages, installed, listed) ==
    LET requested == IF languages = <<>> THEN <<"eng">> ELSE languages
        available == SelectSeq(requested, LAMBDA l : l \in installed)
    IN  IF ~listed THEN <<"eng">>
        ELSE IF available = <<>> THEN <<"eng">> ELSE available

\* ocrmypdf.ocr(input_pdf, output_pdf, language=...) returning normally
OcrOutput(input, langs) == [input EXCEPT !.langs = langs]

\* ghostscript's -sOutputFile for input_pdf
GsOutput(input) == [input EXCEPT !.gs = TRUE]

\* what a failed tool leaves at its output path: the path untouched, or an
\* unfinished file
AfterFailure(disk, name) == {disk, [disk EXCEPT ![name] = Partial]}

\* shutil.copy(src, dst)
CopyFile(disk, src, dst) == [disk EXCEPT ![dst] = disk[src]]

\* the else branches of the OCR step: no copy is made
OcrFallbackSkipped(disk) == disk

\* lines 505-509 and 512-516: the non-OCR'd PDF is used as the OCR version
OcrFallback(disk) == CopyFile(disk, slides_pdf, slides_ocr_pdf)

LanguageArgs == {<<>>, <<"eng">>, <<"fra">>, <<"eng", "fra">>, <<"fra", "deu">>}

PapermarkInit ==
    /\ pm_pc = "convert"
    /\ pm_screenshots \in 0..MaxScreenshots
    /\ pm_languages \in LanguageArgs
    /\ pm_installed \in {{"eng"}, {"eng", "fra"}}
    /\ pm_disk \in [PdfNames -> {Absent, Stale}]
    /\ ocr_success = FALSE
    /\ pm_log = {}
    /\ pm_return = "none"

PapermarkIdle ==
    /\ pm_pc = "idle"
    /\ pm_screenshots = 0
    /\ pm_languages = <<>>
    /\ pm_installed = {}
    /\ pm_disk = [n \in PdfNames |-> Absent]
    /\ ocr_success = FALSE
    /\ pm_log = {}
    /\ pm_return = "none"

PmReturn(value) ==
    /\ pm_pc' = "returned"
    /\ pm_return' = value

\* Step 1, convert_screenshots_to_pdf: no screenshot, or img2pdf raising
\* after output_pdf was opened for writing, returns False
ConvertScreenshots ==
    /\ pm_pc = "convert"
    /\ \/ /\ pm_screenshots = 0
          /\ pm_log' = pm_log \cup {"convert failed"}
          /\ PmReturn("False")
          /\ UNCHANGED pm_disk
       \/ /\ pm_screenshots > 0
          /\ pm_disk' = [pm_disk EXCEPT ![slides_pdf] = Partial]
          /\ pm_log' = pm_log \cup {"convert failed"}
          /\ PmReturn("False")
       \/ /\ pm_screenshots > 0
          /\ pm_disk' = [pm_disk EXCEPT ![slides_pdf] = Img2Pdf(pm_screenshots)]
          /\ pm_log' = pm_log \cup {"created"}
          /\ pm_pc' = "ocr"
          /\ UNCHANGED pm_return
    /\ UNCHANGED <<pm_screenshots, pm_languages, pm_installed, ocr_success>>
    /\ PapermarkOnly

\* Step 2, add_ocr_to_pdf(slides_pdf, slides_ocr_pdf, languages) and the
\* branch taken when it fails
AddOcr ==
    /\ pm_pc = "ocr"
    /\ \/ \E listed \in BOOLEAN :
            /\ pm_disk' = [pm_disk EXCEPT ![slides_ocr_pdf] =
                   OcrOutput(pm_disk[slides_pdf],
                             OcrLanguages(pm_languages, pm_installed, listed))]
            /\ ocr_success' = TRUE
            /\ pm_log' = pm_log \cup {"ocr"}
            /\ pm_pc' = "compress"
       \/ \E failed \in AfterFailure(pm_disk, slides_ocr_pdf) :
            IF Len(pm_languages) > 1 /\ "eng" \in Range(pm_languages)
            THEN /\ pm_disk' = failed
                 /\ pm_pc' = "ocr_eng"
                 /\ UNCHANGED <<ocr_success, pm_log>>
            ELSE /\ pm_disk' = OcrFallback(failed)
                 /\ ocr_success' = TRUE
                 /\ pm_log' = pm_log \cup {"ocr failed"}
                 /\ pm_pc' = "compress"
    /\ UNCHANGED <<pm_screenshots, pm_languages, pm_installed, pm_return>>
    /\ PapermarkOnly

\* lines 498-509: the retry with English only
AddOcrEnglish ==
    /\ pm_pc = "ocr_eng"
    /\ \/ \E listed \in BOOLEAN :
            /\ pm_disk' = [pm_disk EXCEPT ![slides_ocr_pdf] =
                   OcrOutput(pm_disk[slides_pdf],
                             OcrLanguages(<<"eng">>, pm_installed, listed))]
            /\ pm_log' = pm_log \cup {"ocr"}
       \/ \E failed \in AfterFailure(pm_disk, slides_ocr_pdf) :
            /\ pm_disk' = OcrFallback(failed)
            /\ pm_log' = pm_log \cup {"ocr failed"}
    /\ ocr_success' = TRUE
    /\ pm_pc' = "compress"
    /\ UNCHANGED <<pm_screenshots, pm_languages, pm_installed, pm_return>>
    /\ PapermarkOnly

\* Step 3, compress_pdf(slides_ocr_pdf, slides_ocr_compressed_pdf) with its
\* copy on failure, and the return
CompressAndReturn ==
    /\ pm_pc = "compress"
    /\ IF ocr_success /\ Exists(pm_disk, slides_ocr_pdf)
       THEN \/ /\ pm_disk' = [pm_disk EXCEPT ![slides_ocr_compressed_pdf] =
                      GsOutput(pm_disk[slides_ocr_pdf])]
               /\ pm_log' = pm_log \cup {"compressed"}
            \/ \E failed \in AfterFailure(pm_disk, slides_ocr_compressed_pdf) :
                 /\ pm_disk' = CopyFile(failed, slides_ocr_pdf, slides_ocr_compressed_pdf)
                 /\ pm_log' = pm_log \cup {"compress failed"}
       ELSE UNCHANGED <<pm_disk, pm_log>>
    /\ PmReturn("True")
    /\ UNCHANGED <<pm_screenshots, pm_languages, pm_installed, ocr_success>>
    /\ PapermarkOnly

PapermarkNext ==
    \/ ConvertScreenshots
    \/ AddOcr
    \/ AddOcrEnglish
    \/ CompressAndReturn

\* C7: whenever the screenshots-to-PDF step succeeded, process_slides_to_pdf
\* returns True and slides.pdf, slides_ocr.pdf and slides_ocr_compressed.pdf
\* all exist on return, whatever OCR and compression did; a failed OCR left
\* slides_ocr.pdf a copy of slides.pdf, and a failed compression left
\* slides_ocr_compressed.pdf a copy of slides_ocr.pdf.
C7_FallbackCopies ==
    (pm_pc = "returned" /\ "created" \in pm_log) =>
        /\ pm_return = "True"
        /\ \A name \in PdfNames : Exists(pm_disk, name)
        /\ "ocr failed" \in pm_log => pm_disk[slides_ocr_pdf] = pm_disk[slides_pdf]
        /\ "compress failed" \in pm_log =>
               pm_disk[slides_ocr_compressed_pdf] = pm_disk[slides_ocr_pdf]

\* C7 witness: a run that returned after the OCR with the requested languages
\* and the English retry both failed and the compression failed too, so that
\* the compressed file is the PDF of step 1
C7_BothFellBack ==
    /\ pm_pc = "returned"
    /\ "created" \in pm_log
    /\ {"ocr failed", "compress failed"} \subseteq pm_log
    /\ Len(pm_languages) > 1 /\ "eng" \in Range(pm_languages)
    /\ pm_disk[slides_ocr_compressed_pdf] = Img2Pdf(pm_screenshots)

-----------------------------------------------------------------------------
(* video_to_slides_v1.py: process_video, save_state and the resume of a run *)

\* the steps a state file can name, by what process_video skips for them
ExtractedSteps == {"frames_extracted", "frames_deduped", "slides_filtered",
                   "pdf_created", "ocr_done", "completed"}
DedupedSteps == {"frames_deduped", "slides_filtered", "pdf_created", "ocr_done",
                 "completed"}
FilteredSteps == {"slides_filtered", "pdf_created", "ocr_done", "completed"}
PdfSteps == {"pdf_created", "ocr_done", "completed"}
OcrSteps == {"ocr_done", "completed"}

\* a state dict without the key frames_count
NoFramesCount == -1

\* no state file, and the empty resume_state of a run without --config
NoState == [step |-> "None", frames_count |-> NoFramesCount]

\* a PDF made of the given frames; no file; a file left unfinished
PdfOf(fs) == [kind |-> "pdf", frames |-> fs]
NoFile == [kind |-> "absent", frames |-> <<>>]
Unfinished == [kind |-> "partial", frames |-> <<>>]

\* Path.exists()
PathExists(files, name) == files[name].kind # "absent"

\* what a failed or interrupted tool leaves at its output path
LeftBy(files, name) == {files, [files EXCEPT ![name] = Unfinished]}

\* the orders in which as_completed can yield the futures of the frames
Orders(S) == {o \in [1..Cardinality(S) -> S] : Range(o) = S}

\* filter_slide_frames: the frames check_frame_for_slide accepts, sorted
SlideFrames(fs, is_slide) == SortedSeq({f \in Range(fs) : is_slide[f]})

\* save_state: writes the state file unless this is a dry run
SavedState(step, count) ==
    IF vp_config.dry_run THEN vp_state ELSE [step |-> step, frames_count |-> count]

VpRunning == [success |-> FALSE, message |-> "running"]

VpReturn(success, message) ==
    /\ vp_pc' = "returned"
    /\ vp_result' = [success |-> success, message |-> message]

VideoInit ==
    /\ vp_pc = "extract"
    /\ vp_config \in [video_exists : BOOLEAN, dry_run : BOOLEAN,
                      skip_ocr : BOOLEAN, skip_compress : BOOLEAN]
    /\ resume_state = NoState
    /\ \E n \in 0..MaxVideoFrames :
          /\ vp_image \in [1..n -> HashPalette \cup {NoHash}]
          /\ vp_is_slide \in [1..n -> BOOLEAN]
    /\ vp_frames_dir = {}
    /\ frames = <<>>
    /\ vp_files = [name \in {"pdf", "ocr", "compressed"} |-> NoFile]
    /\ vp_state = NoState
    /\ vp_deduped = <<>>
    /\ vp_log = {}
    /\ vp_result = VpRunning
    /\ vp_resumes = 0

VideoIdle ==
    /\ vp_pc = "idle"
    /\ vp_config = [video_exists |-> FALSE, dry_run |-> FALSE,
                    skip_ocr |-> FALSE, skip_compress |-> FALSE]
    /\ resume_state = NoState
    /\ vp_image = <<>>
    /\ vp_is_slide = <<>>
    /\ vp_frames_dir = {}
    /\ frames = <<>>
    /\ vp_files = [name \in {"pdf", "ocr", "compressed"} |-> NoFile]
    /\ vp_state = NoState
    /\ vp_deduped = <<>>
    /\ vp_log = {}
    /\ vp_result = VpRunning
    /\ vp_resumes = 0

\* the conditions under which steps 4, 5 and 6 run
PdfStepRuns == ~PathExists(vp_files, "pdf") \/ resume_state.step \notin PdfSteps
OcrStepRuns ==
    ~vp_config.skip_ocr /\ (~PathExists(vp_files, "ocr") \/ resume_state.step \notin OcrSteps)
CompressStepRuns == ~vp_config.skip_compress /\ ~PathExists(vp_files, "compressed")

\* The check of video_path and Step 1: the frames of an earlier run are
\* read back from the frames directory when the state names a step after
\* extraction; otherwise extract_frames_ffmpeg runs (a dry run fails its
\* disk space check or returns no frames) and saves 'frames_extracted'
ExtractFrames ==
    /\ vp_pc = "extract"
    /\ IF ~vp_config.video_exists
       THEN /\ VpReturn(FALSE, "Video file not found")
            /\ UNCHANGED <<vp_frames_dir, frames, vp_state, vp_log>>
       ELSE IF resume_state.step \in ExtractedSteps
       THEN /\ frames' = SortedSeq(vp_frames_dir)
            /\ IF frames' = <<>>
               THEN VpReturn(FALSE, "No frames extracted")
               ELSE vp_pc' = "dedup" /\ UNCHANGED vp_result
            /\ UNCHANGED <<vp_frames_dir, vp_state, vp_log>>
       ELSE IF vp_config.dry_run
       THEN /\ \E message \in {"Frame extraction failed", "No frames extracted"} :
                 VpReturn(FALSE, message)
            /\ UNCHANGED <<vp_frames_dir, frames, vp_state, vp_log>>
       ELSE \/ \E k \in 0..Len(vp_image) :
                 /\ vp_frames_dir' = 1..k
                 /\ VpReturn(FALSE, "Frame extraction failed")
                 /\ UNCHANGED <<frames, vp_state, vp_log>>
            \/ /\ vp_frames_dir' = 1..Len(vp_image)
               /\ frames' = SortedSeq(vp_frames_dir')
               /\ vp_state' = SavedState("frames_extracted", Len(frames'))
               /\ vp_log' = vp_log \cup {"extracted"}
               /\ IF frames' = <<>>
                  THEN VpReturn(FALSE, "No frames extracted")
                  ELSE vp_pc' = "dedup" /\ UNCHANGED vp_result
    /\ UNCHANGED <<vp_config, resume_state, vp_image, vp_is_slide, vp_files, vp_deduped,
                   vp_resumes>>
    /\ VideoOnly

\* Step 2: deduplicate_with_dhash and save_state 'frames_deduped', unless
\* the state names that step or a later one
Deduplicate ==
    /\ vp_pc = "dedup"
    /\ IF resume_state.step \notin DedupedSteps
       THEN \E order \in Orders(Range(frames)) :
              /\ frames' = DedupResult(vp_image, order, HAMMING_THRESHOLD)
              /\ vp_deduped' = frames'
              /\ vp_state' = SavedState("frames_deduped", Len(frames'))
              /\ vp_log' = vp_log \cup {"deduped"}
       ELSE UNCHANGED <<frames, vp_deduped, vp_state, vp_log>>
    /\ vp_pc' = "filter"
    /\ UNCHANGED <<vp_config, resume_state, vp_image, vp_is_slide, vp_frames_dir, vp_files,
                   vp_result, vp_resumes>>
    /\ VideoOnly

\* Step 3: filter_slide_frames and save_state 'slides_filtered', unless the
\* state names that step or a later one. With no frame at all
\* filter_slide_frames divides by len(frames): ZeroDivisionError, which
\* nothing catches
FilterSlides ==
    /\ vp_pc = "filter"
    /\ IF resume_state.step \in FilteredSteps
       THEN vp_pc' = "pdf" /\ UNCHANGED <<frames, vp_state, vp_log>>
       ELSE IF frames = <<>>
       THEN vp_pc' = "raised" /\ UNCHANGED <<frames, vp_state, vp_log>>
       ELSE /\ frames' = SlideFrames(frames, vp_is_slide)
            /\ vp_state' = SavedState("slides_filtered", Len(frames'))
            /\ vp_log' = vp_log \cup {"filtered"}
            /\ vp_pc' = "pdf"
    /\ UNCHANGED <<vp_config, resume_state, vp_image, vp_is_slide, vp_frames_dir, vp_files,
                   vp_deduped, vp_result, vp_resumes>>
    /\ VideoOnly

\* Step 4: create_pdf_optimized(frames, pdf_path) and save_state 'pdf_created'
CreatePdf ==
    /\ vp_pc = "pdf"
    /\ IF ~PdfStepRuns
       THEN vp_pc' = "ocr" /\ UNCHANGED <<vp_files, vp_state, vp_log, vp_result>>
       ELSE IF frames = <<>>
       THEN /\ VpReturn(FALSE, "No frames to create PDF")
            /\ UNCHANGED <<vp_files, vp_state, vp_log>>
       ELSE IF vp_config.dry_run
       THEN /\ vp_pc' = "ocr"
            /\ vp_state' = SavedState("pdf_created", NoFramesCount)
            /\ UNCHANGED <<vp_files, vp_log, vp_result>>
       ELSE \/ /\ vp_files' = [vp_files EXCEPT !["pdf"] = PdfOf(frames)]
               /\ vp_state' = SavedState("pdf_created", NoFramesCount)
               /\ vp_log' = vp_log \cup {"pdf"}
               /\ vp_pc' = "ocr"
               /\ UNCHANGED vp_result
            \/ /\ vp_files' \in LeftBy(vp_files, "pdf")
               /\ VpReturn(FALSE, "PDF creation failed")
               /\ UNCHANGED <<vp_state, vp_log>>
    /\ UNCHANGED <<vp_config, resume_state, vp_image, vp_is_slide, vp_frames_dir, frames,
                   vp_deduped, vp_resumes>>
    /\ VideoOnly

\* Step 5: ocr_pdf_clean(pdf_path, ocr_pdf_path); a failure is logged as a
\* warning and the run goes on
OcrPdf ==
    /\ vp_pc = "ocr"
    /\ IF ~OcrStepRuns
       THEN UNCHANGED <<vp_files, vp_state, vp_log>>
       ELSE IF vp_config.dry_run
       THEN vp_state' = SavedState("ocr_done", NoFramesCount) /\ UNCHANGED <<vp_files, vp_log>>
       ELSE \/ /\ vp_files["pdf"].kind = "pdf"
               /\ vp_files' = [vp_files EXCEPT !["ocr"] = vp_files["pdf"]]
               /\ vp_state' = SavedState("ocr_done", NoFramesCount)
               /\ vp_log' = vp_log \cup {"ocr"}
            \/ /\ vp_files' \in LeftBy(vp_files, "ocr")
               /\ vp_log' = vp_log \cup {"ocr failed"}
               /\ UNCHANGED vp_state
    /\ vp_pc' = "compress"
    /\ UNCHANGED <<vp_config, resume_state, vp_image, vp_is_slide, vp_frames_dir, frames,
                   vp_deduped, vp_result, vp_resumes>>
    /\ VideoOnly

\* Step 6: compress_pdf(final_pdf, compressed_pdf_path), a failure being
\* logged as a warning; then save_state 'completed' and return (True, None)
CompressAndFinish ==
    /\ vp_pc = "compress"
    /\ LET final_pdf == IF PathExists(vp_files, "ocr") THEN "ocr" ELSE "pdf"
       IN  IF ~CompressStepRuns \/ vp_config.dry_run
           THEN UNCHANGED <<vp_files, vp_log>>
           ELSE \/ /\ vp_files[final_pdf].kind = "pdf"
                   /\ vp_files' = [vp_files EXCEPT !["compressed"] = vp_files[final_pdf]]
                   /\ vp_log' = vp_log \cup {"compressed"}
                \/ /\ vp_files' \in LeftBy(vp_files, "compressed")
                   /\ vp_log' = vp_log \cup {"compress failed"}
    /\ vp_state' = SavedState("completed", NoFramesCount)
    /\ VpReturn(TRUE, "None")
    /\ UNCHANGED <<vp_config, resume_state, vp_image, vp_is_slide, vp_frames_dir, frames,
                   vp_deduped, vp_resumes>>
    /\ VideoOnly

\* SIGINT or SIGTERM while process_video runs: signal_handler cleans up and
\* calls sys.exit(1). The tool that was running may leave its output
\* unfinished; the state file keeps the last step saved
Interrupted ==
    /\ vp_pc \in {"extract", "dedup", "filter", "pdf", "ocr", "compress"}
    /\ vp_pc' = "interrupted"
    /\ \/ UNCHANGED vp_files
       \/ /\ vp_pc = "pdf" /\ PdfStepRuns /\ frames # <<>>
          /\ vp_files' = [vp_files EXCEPT !["pdf"] = Unfinished]
       \/ /\ vp_pc = "ocr" /\ OcrStepRuns
          /\ vp_files' = [vp_files EXCEPT !["ocr"] = Unfinished]
       \/ /\ vp_pc = "compress" /\ CompressStepRuns
          /\ vp_files' = [vp_files EXCEPT !["compressed"] = Unfinished]
    /\ UNCHANGED <<vp_config, resume_state, vp_image, vp_is_slide, vp_frames_dir, frames,
                   vp_state, vp_deduped, vp_log, vp_result, vp_resumes>>
    /\ VideoOnly

\* main with --config: load_state reads the state file, the configuration
\* is restored from it, resume_state is the loaded state, and process_video
\* starts again
Resume ==
    /\ vp_pc \in {"interrupted", "returned", "raised"}
    /\ vp_state # NoState
    /\ vp_resumes < MaxResumes
    /\ resume_state' = vp_state
    /\ vp_pc' = "extract"
    /\ frames' = <<>>
    /\ vp_log' = {}
    /\ vp_result' = VpRunning
    /\ vp_resumes' = vp_resumes + 1
    /\ UNCHANGED <<vp_config, vp_image, vp_is_slide, vp_frames_dir, vp_files, vp_state,
                   vp_deduped>>
    /\ VideoOnly

VideoNext ==
    \/ ExtractFrames
    \/ Deduplicate
    \/ FilterSlides
    \/ CreatePdf
    \/ OcrPdf
    \/ CompressAndFinish
    \/ Interrupted
    \/ Resume

\* the messages process_video returns for a failed frame extraction and for
\* a failed PDF creation
ExtractionMessages == {"Frame extraction failed", "No frames extracted"}
PdfMessages == {"No frames to create PDF", "PDF creation failed"}

\* C8: a failing best-effort step is skipped and the run continues: after a
\* failed OCR or a failed compression process_video records 'completed' and
\* returns (True, None); a frame whose hash cannot be computed is left out
\* and every other frame is still deduplicated (kept, or within the
\* threshold of a kept frame); the run ends by returning, and (False,
\* message) is returned only for a failed frame extraction or PDF creation.
C8_SkipAndContinue ==
    /\ (vp_pc = "returned" /\ vp_log \cap {"ocr failed", "compress failed"} # {}) =>
           /\ vp_result = [success |-> TRUE, message |-> "None"]
           /\ vp_state.step = "completed"
    /\ "deduped" \in vp_log =>
           /\ \A f \in Range(vp_deduped) : vp_image[f] # NoHash
           /\ \A f \in vp_frames_dir : vp_image[f] # NoHash =>
                  \E g \in Range(vp_deduped) :
                      Hamming(vp_image[f], vp_image[g]) <= HAMMING_THRESHOLD
    /\ vp_pc # "raised"
    /\ (vp_pc = "returned" /\ ~vp_result.success) =>
           vp_result.message \in ExtractionMessages \cup PdfMessages

\* C10: resuming from a saved step of frames_deduped or later is equivalent
\* to continuing the interrupted run: the PDF a resumed run creates is made
\* of the frames that survived deduplication in the run that deduplicated
\* and that pass the slide filter, as in an uninterrupted run.
C10_ResumeEquivalent ==
    (resume_state.step \in DedupedSteps /\ "pdf" \in vp_log) =>
        vp_files["pdf"] = PdfOf(SlideFrames(vp_deduped, vp_is_slide))

\* the entries of vp_log that stand for a run of FFmpeg, OCRmyPDF or
\* Ghostscript, or for a PDF written
ToolRuns == {"extracted", "pdf", "ocr", "ocr failed", "compressed", "compress failed"}

\* C11: with --dry-run and an existing video process_video runs through the
\* pipeline and returns (True, None), without invoking FFmpeg, OCR or
\* Ghostscript, without writing a frame or a PDF and without writing the
\* state file.
C11_DryRunShowsOnly ==
    (vp_config.dry_run /\ vp_config.video_exists) =>
        /\ vp_pc = "returned" => vp_result = [success |-> TRUE, message |-> "None"]
        /\ vp_log \cap ToolRuns = {}
        /\ vp_frames_dir = {}
        /\ \A name \in DOMAIN vp_files : ~PathExists(vp_files, name)
        /\ vp_state = NoState

-----------------------------------------------------------------------------
(* The SIGINT/SIGTERM handlers of fireflies_cli_v1, video_to_slides_v1,    *)
(* website_to_pdf and shootproof_downloader                                *)

Scripts == {"fireflies_cli_v1", "video_to_slides_v1", "website_to_pdf",
            "shootproof_downloader"}

Signals == {"SIGINT", "SIGTERM"}

\* the signals a script installs a handler for
Handled(script) ==
    IF script = "website_to_pdf" THEN {"SIGINT"} ELSE Signals

\* exit statuses: none yet; the argument of sys.exit in the handlers; a
\* process killed by SIGTERM
NoExit == -1
ExitOk == 0
ExitError == 1
ExitKilled == 143

\* the phases of a run, in order
Phases(script, slow) ==
    CASE script = "fireflies_cli_v1" ->
           <<"upload_to_tmpfiles", "submit_to_fireflies", "wait_for_transcript",
             "download_transcript", "save_transcript_files", "delete_transcript">>
      [] script = "video_to_slides_v1" ->
           <<"extract_frames_ffmpeg", "deduplicate_with_dhash", "filter_slide_frames",
             "create_pdf_optimized", "ocr_pdf_clean", "compress_pdf">>
      [] script = "website_to_pdf" ->
           IF slow
           THEN <<"goto", "wait_for_page_load", "stability_check",
                  "smart_scroll_and_expand", "wait_for_images", "pdf">>
           ELSE <<"goto", "wait_for_page_load",
                  "smart_scroll_and_expand", "wait_for_images", "pdf">>
      [] script = "shootproof_downloader" ->
           <<"authenticate", "load_all_photos", "transform_urls_to_high_res",
             "download_all_photos", "generate_report">>
      [] OTHER -> <<>>

\* the strategies of _progressive_loading
Strategies == <<"Smooth scroll", "Viewport chunks", "JavaScript trigger", "Force load all">>

sg_phase_name == Phases(sg_script, sg_slow)[sg_phase]

\* the argument of sys.exit in the handler of the script
HandlerExit(script) == IF script = "video_to_slides_v1" THEN ExitError ELSE ExitOk

\* every handler calling sys.exit
HandlerCallsExit(script, sig) ==
    IF sig \in Handled(script) THEN "sys.exit" ELSE "default"

\* What the delivery of sig does: the handlers of fireflies_cli_v1,
\* video_to_slides_v1 and website_to_pdf call sys.exit, the handler of
\* shootproof_downloader only sets _shutdown_requested, and a signal without
\* handler has its default disposition
HandlerOf(script, sig) ==
    IF sig \notin Handled(script) THEN "default"
    ELSE IF script = "shootproof_downloader" THEN "flag"
    ELSE "sys.exit"

SignalsInit ==
    /\ sg_script \in Scripts
    /\ sg_slow \in (IF sg_script = "website_to_pdf" THEN BOOLEAN ELSE {FALSE})
    /\ sg_pc = "running"
    /\ sg_phase = 1
    /\ sg_strategy = 1
    /\ sg_photos \in (IF sg_script = "shootproof_downloader" THEN 0..MaxPhotos ELSE {0})
    /\ _shutdown_requested = FALSE
    /\ sg_delivered = <<>>
    /\ sg_handler = "none"
    /\ sg_swallowed = FALSE
    /\ sg_started_after = {}
    /\ sg_exit_code = NoExit

SignalsIdle ==
    /\ sg_script = "none"
    /\ sg_slow = FALSE
    /\ sg_pc = "idle"
    /\ sg_phase = 1
    /\ sg_strategy = 1
    /\ sg_photos = 0
    /\ _shutdown_requested = FALSE
    /\ sg_delivered = <<>>
    /\ sg_handler = "none"
    /\ sg_swallowed = FALSE
    /\ sg_started_after = {}
    /\ sg_exit_code = NoExit

\* a unit of work starts: remembered when a signal was delivered before
Started(unit) ==
    sg_started_after' =
        IF sg_delivered # <<>> THEN sg_started_after \cup {unit} ELSE sg_started_after

\* the loops of load_all_photos and download_all_photos still have work
InLoop ==
    /\ sg_script = "shootproof_downloader"
    /\ \/ sg_phase_name = "load_all_photos" /\ sg_strategy <= Len(Strategies)
       \/ sg_phase_name = "download_all_photos" /\ sg_photos > 0

\* The run finishes a phase: it starts the next one, or after the last
\* phase main exits with the status of the run
NextPhase ==
    /\ sg_pc = "running"
    /\ ~InLoop
    /\ IF sg_phase < Len(Phases(sg_script, sg_slow))
       THEN /\ sg_phase' = sg_phase + 1
            /\ Started(Phases(sg_script, sg_slow)[sg_phase + 1])
            /\ UNCHANGED <<sg_pc, sg_exit_code>>
       ELSE /\ sg_pc' = "exited"
            /\ sg_exit_code' \in (IF sg_script = "shootproof_downloader"
                                  THEN {ExitOk} ELSE {ExitOk, ExitError})
            /\ UNCHANGED <<sg_phase, sg_started_after>>
    /\ UNCHANGED <<sg_script, sg_slow, sg_strategy, sg_photos, _shutdown_requested,
                   sg_delivered, sg_handler, sg_swallowed>>
    /\ SignalsOnly

\* One iteration of the strategy loop of _progressive_loading: it breaks
\* when shutdown was requested, else runs the strategy and goes on or stops
LoadStrategy ==
    /\ sg_pc = "running"
    /\ sg_script = "shootproof_downloader"
    /\ sg_phase_name = "load_all_photos"
    /\ sg_strategy <= Len(Strategies)
    /\ IF _shutdown_requested
       THEN /\ sg_strategy' = Len(Strategies) + 1
            /\ UNCHANGED sg_started_after
       ELSE /\ Started(Strategies[sg_strategy])
            /\ sg_strategy' \in {sg_strategy + 1, Len(Strategies) + 1}
    /\ UNCHANGED <<sg_script, sg_slow, sg_pc, sg_phase, sg_photos, _shutdown_requested,
                   sg_delivered, sg_handler, sg_swallowed, sg_exit_code>>
    /\ SignalsOnly

\* A worker of download_all_photos takes the next photo:
\* _download_photo_with_retry gives up before its first request when
\* shutdown was requested
DownloadPhoto ==
    /\ sg_pc = "running"
    /\ sg_script = "shootproof_downloader"
    /\ sg_phase_name = "download_all_photos"
    /\ sg_photos > 0
    /\ sg_photos' = sg_photos - 1
    /\ IF _shutdown_requested
       THEN UNCHANGED sg_started_after
       ELSE Started("photo request")
    /\ UNCHANGED <<sg_script, sg_slow, sg_pc, sg_phase, sg_strategy, _shutdown_requested,
                   sg_delivered, sg_handler, sg_swallowed, sg_exit_code>>
    /\ SignalsOnly

\* A signal is delivered to the running script. sys.exit raises SystemExit
\* where the run is: it ends the run, except inside the try of the
\* slow-mode stability check of website_to_pdf, whose bare except catches it
DeliverSignal ==
    /\ sg_pc = "running"
    /\ Len(sg_delivered) < MaxSignals
    /\ \E sig \in Signals :
         /\ sg_delivered' = Append(sg_delivered, sig)
         /\ sg_handler' = HandlerOf(sg_script, sig)
         /\ CASE sg_handler' = "sys.exit" ->
                   IF sg_script = "website_to_pdf" /\ sg_phase_name = "stability_check"
                   THEN /\ sg_swallowed' = TRUE
                        /\ UNCHANGED <<sg_pc, sg_exit_code, _shutdown_requested>>
                   ELSE /\ sg_pc' = "exited"
                        /\ sg_exit_code' = HandlerExit(sg_script)
                        /\ UNCHANGED <<sg_swallowed, _shutdown_requested>>
              [] sg_handler' = "flag" ->
                   /\ _shutdown_requested' = TRUE
                   /\ UNCHANGED <<sg_pc, sg_exit_code, sg_swallowed>>
              [] OTHER ->
                   /\ sg_pc' = "exited"
                   /\ sg_exit_code' = ExitKilled
                   /\ UNCHANGED <<sg_swallowed, _shutdown_requested>>
    /\ UNCHANGED <<sg_script, sg_slow, sg_phase, sg_strategy, sg_photos, sg_started_after>>
    /\ SignalsOnly

SignalsNext ==
    \/ NextPhase
    \/ LoadStrategy
    \/ DownloadPhoto
    \/ DeliverSignal

ExitInterrupted == 130

\* C13: once shootproof_downloader has exited after a SIGINT delivered
\* during its run, its exit status is 130.
C13_InterruptExits130 ==
    (/\ sg_script = "shootproof_downloader"
     /\ "SIGINT" \in Range(sg_delivered)
     /\ sg_pc = "exited") => sg_exit_code = ExitInterrupted

-----------------------------------------------------------------------------
(* shootproof_downloader.py: download_all_photos and its resume            *)

VALID_IMAGE_SIZE_KB == 100

\* no file <id>.jpg
NoSize == -1

\* the sizes in bytes a file can have: one byte, exactly the valid-image
\* size, one byte more
FileSizes == {1, VALID_IMAGE_SIZE_KB * 1024, VALID_IMAGE_SIZE_KB * 1024 + 1}

\* download_results.json: missing, unreadable, or a JSON document whose
\* "results" object has one member per recorded photo
NoResultsFile == [kind |-> "absent", members |-> {}]
CorruptResultsFile == [kind |-> "corrupt", members |-> {}]

\* json.dump of self.download_results: the members of the "results" object
JsonDump(results) ==
    [kind |-> "json",
     members |-> {[photo_id |-> id, success |-> results[id].success] : id \in DOMAIN results}]

\* json.load and data.get("results", {}): the dict of the members
JsonLoad(file) ==
    LET keys == {mem.photo_id : mem \in file.members}
    IN  [id \in keys |->
            [success |-> (CHOOSE mem \in file.members : mem.photo_id = id).success]]

EmptyDict == [id \in {} |-> [success |-> FALSE]]

\* _load_previous_results: the results of the file, or the dict as it was
\* when the file is missing or cannot be read
_load_previous_results(results, file) ==
    IF file.kind = "json" THEN JsonLoad(file) ELSE results

\* the loop of _get_photos_to_download without the test of the file size
PhotosWithoutResult(photos, results, disk) ==
    SelectSeq(photos, LAMBDA id :
        ~(id \in DOMAIN results /\ results[id].success /\ disk[id] # NoSize))

\* _get_photos_to_download: photo_data without the photos that have a
\* successful result and a file, and without those whose file is larger
\* than the valid-image size
_get_photos_to_download(photos, results, disk) ==
    SelectSeq(photos, LAMBDA id :
        /\ ~(id \in DOMAIN results /\ results[id].success /\ disk[id] # NoSize)
        /\ ~(disk[id] # NoSize /\ disk[id] > VALID_IMAGE_SIZE_KB * 1024))

ShootproofInit ==
    /\ sp_pc = "start"
    /\ sp_config \in [resume : BOOLEAN, dry_run : BOOLEAN]
    /\ \E n \in 0..MaxPhotos :
          /\ photo_data = UpTo(n)
          /\ sp_disk \in [1..n -> FileSizes \cup {NoSize}]
          /\ \/ sp_results_file \in {NoResultsFile, CorruptResultsFile}
             \/ \E ids \in SUBSET (1..n) : \E r \in [ids -> [success : BOOLEAN]] :
                   sp_results_file = JsonDump(r)
          /\ sp_submitted = [id \in 1..n |-> 0]
    /\ download_results = EmptyDict
    /\ sp_futures = {}
    /\ sp_start = [disk |-> sp_disk, file |-> sp_results_file]
    /\ sp_shutdown = FALSE
    /\ sp_skipped = 0
    /\ sp_runs = 1

ShootproofIdle ==
    /\ sp_pc = "idle"
    /\ sp_config = [resume |-> FALSE, dry_run |-> FALSE]
    /\ photo_data = <<>>
    /\ sp_disk = <<>>
    /\ sp_results_file = NoResultsFile
    /\ download_results = EmptyDict
    /\ sp_futures = {}
    /\ sp_submitted = <<>>
    /\ sp_start = [disk |-> <<>>, file |-> NoResultsFile]
    /\ sp_shutdown = FALSE
    /\ sp_skipped = 0
    /\ sp_runs = 0

\* number of times a photo occurs in the list handed to executor.submit
Submissions(todo, id) == Cardinality({i \in DOMAIN todo : todo[i] = id})

\* download_all_photos up to the submission of the futures: a dry run
\* downloads nothing; otherwise the previous results are loaded when
\* resuming, the photos to download are selected and each is submitted
StartDownloads ==
    /\ sp_pc = "start"
    /\ IF sp_config.dry_run
       THEN /\ sp_pc' = "done"
            /\ UNCHANGED <<download_results, sp_futures, sp_submitted, sp_skipped>>
       ELSE LET results == IF sp_config.resume
                           THEN _load_previous_results(download_results, sp_results_file)
                           ELSE download_results
                todo == _get_photos_to_download(photo_data, results, sp_disk)
            IN  /\ download_results' = results
                /\ sp_skipped' = Len(photo_data) - Len(todo)
                /\ sp_futures' = Range(todo)
                /\ sp_submitted' = [id \in DOMAIN sp_submitted |->
                                        sp_submitted[id] + Submissions(todo, id)]
                /\ sp_pc' = IF todo = <<>> THEN "done" ELSE "downloading"
    /\ UNCHANGED <<sp_config, photo_data, sp_disk, sp_results_file, sp_start,
                   sp_shutdown, sp_runs>>
    /\ ShootproofOnly

\* one future finishes (_download_photo_with_retry) and as_completed yields
\* it: a successful download leaves <id>.jpg with more than 0 bytes, a failed
\* one leaves the disk alone; the result is recorded unless shutdown was
\* requested, and after the last future the results are saved
DownloadCompletes ==
    /\ sp_pc = "downloading"
    /\ \E id \in sp_futures : \E success \in BOOLEAN : \E size \in FileSizes :
          /\ sp_disk' = IF success THEN [sp_disk EXCEPT ![id] = size] ELSE sp_disk
          /\ ~success => size = 1
          /\ download_results' =
                IF sp_shutdown THEN download_results
                ELSE [k \in DOMAIN download_results \cup {id} |->
                        IF k = id THEN [success |-> success] ELSE download_results[k]]
          /\ sp_futures' = sp_futures \ {id}
          /\ IF sp_futures' = {}
             THEN /\ sp_results_file' = JsonDump(download_results')
                  /\ sp_pc' = "done"
             ELSE UNCHANGED <<sp_results_file, sp_pc>>
    /\ UNCHANGED <<sp_config, photo_data, sp_submitted, sp_start, sp_shutdown,
                   sp_skipped, sp_runs>>
    /\ ShootproofOnly

\* _signal_handler while the downloads run
RequestShutdown ==
    /\ sp_pc = "downloading"
    /\ ~sp_shutdown
    /\ sp_shutdown' = TRUE
    /\ UNCHANGED <<sp_pc, sp_config, photo_data, sp_disk, sp_results_file,
                   download_results, sp_futures, sp_submitted, sp_start,
                   sp_skipped, sp_runs>>
    /\ ShootproofOnly

\* the downloader is started again on the same gallery and output directory
RunAgain ==
    /\ sp_pc = "done"
    /\ sp_runs < MaxRuns
    /\ sp_runs' = sp_runs + 1
    /\ sp_config' \in [resume : BOOLEAN, dry_run : BOOLEAN]
    /\ download_results' = EmptyDict
    /\ sp_submitted' = [id \in DOMAIN sp_submitted |-> 0]
    /\ sp_start' = [disk |-> sp_disk, file |-> sp_results_file]
    /\ sp_shutdown' = FALSE
    /\ sp_skipped' = 0
    /\ sp_pc' = "start"
    /\ UNCHANGED <<photo_data, sp_disk, sp_results_file, sp_futures>>
    /\ ShootproofOnly

ShootproofNext == StartDownloads \/ DownloadCompletes \/ RequestShutdown \/ RunAgain

\* the previous result of a photo in the download_results.json this run found
PreviousSuccess(id) ==
    /\ sp_start.file.kind = "json"
    /\ \E mem \in sp_start.file.members : mem.photo_id = id /\ mem.success

\* the photo is one the resume leaves alone
AlreadyThere(id) ==
    \/ PreviousSuccess(id) /\ sp_start.disk[id] # NoSize
    \/ sp_start.disk[id] # NoSize /\ sp_start.disk[id] > VALID_IMAGE_SIZE_KB * 1024

\* C12: in a resuming run that is not a dry run, once the downloads are
\* submitted, a photo with a successful previous result and a file, or with
\* a file larger than the valid-image size, was not submitted and its file
\* is the one the run found, and every other photo of photo_data was
\* submitted exactly once.
C12_ResumeDownloadsMissing ==
    (sp_config.resume /\ ~sp_config.dry_run /\ sp_pc \in {"downloading", "done"}) =>
        \A id \in Range(photo_data) :
            IF AlreadyThere(id)
            THEN sp_submitted[id] = 0 /\ sp_disk[id] = sp_start.disk[id]
            ELSE sp_submitted[id] = 1

\* a second, resuming run has finished: it skipped a photo of at most the
\* valid-image size because the first run recorded its download, and it
\* downloaded another photo that the first run failed to download
C12_SecondRunResumed ==
    /\ sp_runs = 2 /\ sp_pc = "done" /\ sp_config.resume /\ ~sp_config.dry_run
    /\ \E id \in Range(photo_data) :
          /\ PreviousSuccess(id)
          /\ sp_start.disk[id] # NoSize
          /\ sp_start.disk[id] <= VALID_IMAGE_SIZE_KB * 1024
          /\ sp_submitted[id] = 0
    /\ \E id \in Range(photo_data) :
          /\ ~AlreadyThere(id)
          /\ sp_submitted[id] = 1
          /\ id \in DOMAIN download_results /\ download_results[id].success

-----------------------------------------------------------------------------
(* website_to_pdf.py: convert_with_retry and the Wayback Machine fallback  *)

\* validate_config: max_retries is between 1 and MaxRetriesAllowed
MaxRetriesAllowed == 10

\* retry_delay = 1
InitialRetryDelay == 1

\* the cap of retry_delay
RetryDelayCap == 60

UrlKinds == {"site", "web.archive.org"}

\* what one call of convert_with_smart_fixes can do: return success, raise
\* PaywallError, return an error that names a network or access problem,
\* return any other error. detect_paywall returns False for a
\* web.archive.org url, so no PaywallError is raised for one
Outcomes(url) ==
    IF url = "web.archive.org"
    THEN {"success", "access issue", "error"}
    ELSE {"success", "paywall", "access issue", "error"}

\* retry_delay * 2, without the cap
Doubled(d) == d * 2

\* retry_delay = min(retry_delay * 2, 60)
NextDelay(d) == Min(d * 2, RetryDelayCap)

\* one call of convert_with_smart_fixes: on the url argument ("url") or on a
\* snapshot of the Wayback Machine ("archive_url"), and what it did
Conversion(arg, outcome) == [arg |-> arg, outcome |-> outcome]

\* the conversions of the snapshots tried in order until one succeeds:
\* first is the position of the first snapshot that converts, 0 if none of
\* the n does
SnapshotConversions(n, first) ==
    [i \in 1..(IF first = 0 THEN n ELSE first) |->
        Conversion("archive_url", IF i = first THEN "success" ELSE "error")]

WebRetryInit ==
    /\ wr_pc = "attempt"
    /\ wr_config \in [max_retries : 1..MaxRetriesAllowed, use_archive_fallback : BOOLEAN]
    /\ wr_url \in UrlKinds
    /\ is_archive_url = FALSE
    /\ wr_attempt = 1
    /\ retry_delay = InitialRetryDelay
    /\ has_tried_archive = FALSE
    /\ wr_conversions = <<>>
    /\ wr_find_calls = <<>>
    /\ wr_sleeps = <<>>
    /\ wr_return = [success |-> FALSE, message |-> "None"]

WebRetryIdle ==
    /\ wr_pc = "idle"
    /\ wr_config = [max_retries |-> 1, use_archive_fallback |-> FALSE]
    /\ wr_url = "site"
    /\ is_archive_url = FALSE
    /\ wr_attempt = 0
    /\ retry_delay = 0
    /\ has_tried_archive = FALSE
    /\ wr_conversions = <<>>
    /\ wr_find_calls = <<>>
    /\ wr_sleeps = <<>>
    /\ wr_return = [success |-> FALSE, message |-> "None"]

WrReturn(success, message) ==
    /\ wr_pc' = "returned"
    /\ wr_return' = [success |-> success, message |-> message]

\* an attempt on the url converts the page: return True
AttemptSucceeds ==
    /\ wr_pc = "attempt"
    /\ wr_conversions' = Append(wr_conversions, Conversion("url", "success"))
    /\ WrReturn(TRUE, "")
    /\ UNCHANGED <<wr_config, wr_url, is_archive_url, wr_attempt, retry_delay,
                   has_tried_archive, wr_find_calls, wr_sleeps>>
    /\ WebRetryOnly

\* an attempt on the url raises PaywallError: fail at once for an archive
\* url, with the fallback disabled or already used; otherwise ask the
\* Wayback Machine and try its snapshots in order until one converts
AttemptPaywalled ==
    /\ wr_pc = "attempt"
    /\ "paywall" \in Outcomes(wr_url)
    /\ LET tried == Append(wr_conversions, Conversion("url", "paywall"))
       IN  IF is_archive_url \/ ~wr_config.use_archive_fallback \/ has_tried_archive
           THEN /\ wr_conversions' = tried
                /\ WrReturn(FALSE, "Paywall detected")
                /\ UNCHANGED <<has_tried_archive, wr_find_calls>>
           ELSE /\ has_tried_archive' = TRUE
                /\ wr_find_calls' = Append(wr_find_calls, wr_url)
                /\ \E n \in 0..MaxSnapshots : \E first \in 0..n :
                      /\ wr_conversions' = tried \o SnapshotConversions(n, first)
                      /\ IF n = 0
                         THEN WrReturn(FALSE, "Paywall detected and no archive found")
                         ELSE IF first = 0
                              THEN WrReturn(FALSE, "All archive snapshots failed")
                              ELSE WrReturn(TRUE, "")
    /\ UNCHANGED <<wr_config, wr_url, is_archive_url, wr_attempt, retry_delay, wr_sleeps>>
    /\ WebRetryOnly

\* an attempt on the url fails with an error: on the last attempt an access
\* issue makes the function try the largest snapshot of the Wayback Machine,
\* unless is_archive_url is set or the fallback is disabled or already used;
\* otherwise sleep retry_delay, double it up to the cap and go on, or return
\* the error after the last attempt
AttemptFails ==
    /\ wr_pc = "attempt"
    /\ \E outcome \in {"access issue", "error"} :
        LET tried == Append(wr_conversions, Conversion("url", outcome))
            asks == /\ outcome = "access issue"
                    /\ ~is_archive_url
                    /\ wr_config.use_archive_fallback
                    /\ ~has_tried_archive
                    /\ wr_attempt = wr_config.max_retries
        IN  \E n \in 0..MaxSnapshots : \E converts \in BOOLEAN :
             /\ ~asks => n = 0
             /\ n = 0 => ~converts
             /\ has_tried_archive' = (has_tried_archive \/ asks)
             /\ wr_find_calls' = IF asks THEN Append(wr_find_calls, wr_url) ELSE wr_find_calls
             /\ IF asks /\ n > 0
                THEN /\ wr_conversions' =
                          Append(tried, Conversion("archive_url",
                                                   IF converts THEN "success" ELSE "error"))
                     /\ IF converts THEN WrReturn(TRUE, "")
                                    ELSE WrReturn(FALSE, "Archive attempt failed")
                     /\ UNCHANGED <<wr_attempt, retry_delay, wr_sleeps>>
                ELSE /\ wr_conversions' = tried
                     /\ IF wr_attempt < wr_config.max_retries
                        THEN /\ wr_sleeps' = Append(wr_sleeps, retry_delay)
                             /\ retry_delay' = NextDelay(retry_delay)
                             /\ wr_attempt' = wr_attempt + 1
                             /\ UNCHANGED <<wr_pc, wr_return>>
                        ELSE /\ WrReturn(FALSE, outcome)
                             /\ UNCHANGED <<wr_attempt, retry_delay, wr_sleeps>>
    /\ UNCHANGED <<wr_config, wr_url, is_archive_url>>
    /\ WebRetryOnly

WebRetryNext == AttemptSucceeds \/ AttemptPaywalled \/ AttemptFails

\* C14: find_archived_url is called at most once per call of
\* convert_with_retry, and not at all when the url is a web.archive.org url
\* or use_archive_fallback is false.
C14_ArchiveOnceAndNotForArchive ==
    /\ Len(wr_find_calls) <= 1
    /\ (wr_url = "web.archive.org" \/ ~wr_config.use_archive_fallback) =>
           wr_find_calls = <<>>

\* the attempts made on the url argument so far
OriginalAttempts == Cardinality({i \in DOMAIN wr_conversions : wr_conversions[i].arg = "url"})

\* C15: the url is attempted at most max_retries times; the i-th wait is
\* min(2^(i-1), 60) seconds and there is one wait after each failed attempt
\* that is followed by another attempt; and the function returns success
\* exactly when a conversion of the url or of a snapshot succeeded.
C15_ExponentialBackoff ==
    /\ OriginalAttempts <= wr_config.max_retries
    /\ \A i \in DOMAIN wr_sleeps : wr_sleeps[i] = Min(Pow2(i - 1), RetryDelayCap)
    /\ Len(wr_sleeps) = IF wr_pc = "returned" THEN OriginalAttempts - 1 ELSE OriginalAttempts
    /\ wr_pc = "returned" =>
          (wr_return.success <=>
              \E i \in DOMAIN wr_conversions : wr_conversions[i].outcome = "success")

\* ten attempts on the url failed, the waits reached the cap, and the
\* snapshot tried after the last attempt converted
C15_CappedThenArchived ==
    /\ wr_pc = "returned"
    /\ OriginalAttempts = MaxRetriesAllowed
    /\ Len(wr_sleeps) = MaxRetriesAllowed - 1
    /\ wr_sleeps[Len(wr_sleeps)] = RetryDelayCap
    /\ wr_sleeps[Len(wr_sleeps)] < Pow2(Len(wr_sleeps) - 1)
    /\ wr_return.success
    /\ wr_conversions[Len(wr_conversions)] = Conversion("archive_url", "success")

-----------------------------------------------------------------------------
(* Specifications: one per script *)

InitDedup == DedupInit /\ DetectIdle /\ RetryIdle /\ FirefliesIdle /\ PapermarkIdle /\ VideoIdle /\ SignalsIdle /\ ShootproofIdle /\ WebRetryIdle

SpecDedup == InitDedup /\ [][DedupNext]_vars

InitDetect == DetectInit /\ DedupIdle /\ RetryIdle /\ FirefliesIdle /\ PapermarkIdle /\ VideoIdle /\ SignalsIdle /\ ShootproofIdle /\ WebRetryIdle

SpecDetect == InitDetect /\ [][DetectNext]_vars

InitRetry == RetryInit /\ DedupIdle /\ DetectIdle /\ FirefliesIdle /\ PapermarkIdle /\ VideoIdle /\ SignalsIdle /\ ShootproofIdle /\ WebRetryIdle

SpecRetry == InitRetry /\ [][RetryNext]_vars

InitFireflies == FirefliesInit /\ RetryIdle /\ DedupIdle /\ DetectIdle /\ PapermarkIdle /\ VideoIdle /\ SignalsIdle /\ ShootproofIdle /\ WebRetryIdle

SpecFireflies == InitFireflies /\ [][FirefliesNext]_vars

InitPapermark == PapermarkInit /\ DedupIdle /\ DetectIdle /\ RetryIdle /\ FirefliesIdle /\ VideoIdle /\ SignalsIdle /\ ShootproofIdle /\ WebRetryIdle

SpecPapermark == InitPapermark /\ [][PapermarkNext]_vars

InitVideo == VideoInit /\ DedupIdle /\ DetectIdle /\ RetryIdle /\ FirefliesIdle /\ PapermarkIdle /\ SignalsIdle /\ ShootproofIdle /\ WebRetryIdle

SpecVideo == InitVideo /\ [][VideoNext]_vars

InitSignals ==
    SignalsInit /\ DedupIdle /\ DetectIdle /\ RetryIdle /\ FirefliesIdle /\ PapermarkIdle
        /\ VideoIdle /\ ShootproofIdle /\ WebRetryIdle

SpecSignals == InitSignals /\ [][SignalsNext]_vars

InitShootproof ==
    ShootproofInit /\ DedupIdle /\ DetectIdle /\ RetryIdle /\ FirefliesIdle /\ PapermarkIdle
        /\ VideoIdle /\ SignalsIdle /\ WebRetryIdle

SpecShootproof == InitShootproof /\ [][ShootproofNext]_vars

InitWebRetry ==
    WebRetryInit /\ DedupIdle /\ DetectIdle /\ RetryIdle /\ FirefliesIdle /\ PapermarkIdle
        /\ VideoIdle /\ SignalsIdle /\ ShootproofIdle

SpecWebRetry == InitWebRetry /\ [][WebRetryNext]_vars

InitFirefliesFiles ==
    FirefliesFilesInit /\ RetryIdle /\ DedupIdle /\ DetectIdle /\ PapermarkIdle /\ VideoIdle
        /\ SignalsIdle /\ ShootproofIdle /\ WebRetryIdle

SpecFirefliesFiles == InitFirefliesFiles /\ [][FirefliesNext]_vars

=============================================================================
